---- MODULE Spec2Model ----
(***************************************************************************)
(* A model of pycdft: the constrained-DFT driver (cdft.py), the Constraint *)
(* base class (constraint/base.py), the charge constraint                  *)
(* (constraint/charge.py), the Sample (common/sample.py) and the Qbox      *)
(* adapter with its lock-file protocol (dft_driver/qbox_driver.py).        *)
(*                                                                         *)
(* Numbers are integers: a density, a multiplier, an energy or a force is  *)
(* a small integer in some unit, the grid is a handful of points.          *)
(***************************************************************************)
EXTENDS Integers, Sequences, FiniteSets, TLC

(***************************************************************************)
(* Bounds of the model.                                                    *)
(***************************************************************************)
\* maxcscf, the iteration budget handed to the root-finder (cdft.py:39).
MaxCscf == 1
\* maxstep, the budget of geometry steps (cdft.py:39).
MaxStep == 2
\* F_tol, the force threshold (cdft.py:40), in the model's force unit.
F_tol == 2

\* Python's None, for a tolerance that is not configured and a value not yet set.
None == 0 - 1

Abs(x) == IF x < 0 THEN 0 - x ELSE x

RECURSIVE SumSeq(_)
SumSeq(s) == IF s = << >> THEN 0 ELSE Head(s) + SumSeq(Tail(s))

RECURSIVE MaxSeq(_)
MaxSeq(s) == IF Len(s) = 1 THEN s[1]
             ELSE LET m == MaxSeq(Tail(s)) IN IF s[1] > m THEN s[1] ELSE m

(***************************************************************************)
(* The Sample: two atoms on a grid of two points, each atom its own        *)
(* fragment; constraint k is a charge constraint on fragment k.            *)
(***************************************************************************)
Grid == {1, 2}
Atoms == {1, 2}
\* the geometries the engine can produce: the grid point of each atom
Geometries == {<<1, 2>>, <<2, 1>>}
\* sample.n and sample.omega: unit volume per grid point
n123 == Cardinality(Grid)
omega == Cardinality(Grid)
\* the charge densities the engine can report, one value per grid point
RhoFields == {<<0, 0>>, <<1, 1>>, <<2, 2>>, <<1, 0>>}
\* (Ed, Ec) pairs the engine can report after a minimization round
EnergyVals == {<<1, 0>>, <<2, 1>>}
\* multipliers the root-finder can propose after the first evaluation
VVals == {0, 1}
\* the engine's force on one atom, and the force fields it can report
ZeroField == [g \in Grid |-> 0]
ZeroForce == [a \in Atoms |-> <<0, 0>>]
\* the force fields (one vector per atom) the engine can report
ForceFields == {ZeroForce, <<<<1, 1>>, <<0, 0>>>>, <<<<0, 0>>, <<2, 0>>>>}
\* a constraint's integral of density times weight gradient, one vector per atom
GradFields == {ZeroForce, <<<<1, 0>>, <<0 - 1, 0>>>>}
\* the bracket a constraint is constructed with (charge.py:18)
V_brak == <<0 - 1, 1>>

\* the tolerances a constraint can be constructed with (Ntol, Vtol, dVtol):
\* all three, all three with a looser Ntol, the constructor's default (dVtol
\* only), Vtol and dVtol
TolProfiles == {<<1, 1, 1>>, <<2, 1, 1>>, <<None, None, 1>>, <<None, 1, 1>>}
ConsCounts == {0, 1, 2}
Jobs == {"scf", "opt", "md"}
Optimizers == {"secant", "bisect", "brentq", "brenth", "BFGS", "sd"}
ScalarOptimizers == {"secant", "bisect", "brentq", "brenth"}

(***************************************************************************)
(* Constraint (constraint/base.py).  A constraint is a record.             *)
(***************************************************************************)
\* Constraint.__init__: V = V_old = V_init, the tolerances as given, nothing
\* computed yet, the converged flag false.  With no tolerance at all it raises.
ConstraintInitRaises(Ntol, Vtol, dVtol) == Ntol = None /\ Vtol = None /\ dVtol = None

NewConstraint(frag, N0, V_init, tol) ==
    [fragment |-> frag, N0 |-> N0, V |-> V_init, V_old |-> V_init, V_init |-> V_init,
     Ntol |-> tol[1], Vtol |-> tol[2], dVtol |-> tol[3],
     V_brak |-> V_brak, Vc |-> <<ZeroField>>, weight |-> ZeroField, N |-> None, Fc |-> ZeroForce,
     is_converged |-> FALSE]

\* the property dW_by_dV
dW_by_dV(c) == c.N - c.N0

\* Python's x < y: a TypeError when y is None
PyLess(x, y) == IF y = None THEN "TypeError" ELSE IF x < y THEN "yes" ELSE "no"

\* the three marks of check_convergence, as the code computes them
Nconv(c) == IF c.Ntol = None THEN "-" ELSE PyLess(Abs(c.N - c.N0), c.Ntol)
Vconv(c) == IF c.Vtol # None THEN "-" ELSE PyLess(Abs(c.V - c.V_old), c.Vtol)
dVconv(c) == IF c.dVtol # None THEN "-" ELSE PyLess(Abs(dW_by_dV(c)), c.dVtol)

\* check_convergence: raises (a TypeError of one of the comparisons) or returns
\* not any(conv == "no")
check_convergence(c) ==
    LET marks == {Nconv(c), Vconv(c), dVconv(c)}
    IN  [raises |-> "TypeError" \in marks, value |-> ~("no" \in marks)]

\* a compute_N that sums the first spin channel only
compute_N_first_channel(c, rho) ==
    (omega \div n123) * SumSeq([g \in 1..Cardinality(Grid) |-> c.weight[g] * rho[1][g]])

\* compute_N: (omega / n) * sum over spin channels and grid points of weight * density
compute_N(c, rho) ==
    (omega \div n123) *
    SumSeq([s \in 1..Len(rho) |-> SumSeq([g \in 1..Cardinality(Grid) |-> c.weight[g] * rho[s][g]])])

(***************************************************************************)
(* Sample.update_weights and ChargeConstraint.update_w.  An atom's         *)
(* reference density is 1 at the atom's grid point and 0 elsewhere.        *)
(***************************************************************************)
\* cutoff of the weight where the reference density approaches zero
\* (0.0001 in charge.py:15; densities are integers here)
eps == 1

rhopro_tot_r(p) == [g \in Grid |-> Cardinality({a \in Atoms : p[a] = g})]
\* fragment f holds atom f alone
rhopro_r(f, p) == [g \in Grid |-> IF p[f] = g THEN 1 ELSE 0]

\* reference densities that stay those of the positions the Sample was built with
promolecule_initial(p) ==
    [tot |-> rhopro_tot_r(<<1, 2>>), frag |-> [f \in Atoms |-> rhopro_r(f, <<1, 2>>)]]

\* Sample.update_weights, lines 154-167: the total and the per-fragment reference
\* densities for the positions p
promolecule(p) == [tot |-> rhopro_tot_r(p), frag |-> [f \in Atoms |-> rhopro_r(f, p)]]

\* the reference densities before the first update_weights
NoPromolecule == [tot |-> ZeroField, frag |-> [f \in Atoms |-> ZeroField]]

\* ChargeConstraint.update_w: the weight from the stored reference densities
update_w(c, ref) ==
    [g \in Grid |-> IF ref.tot[g] < eps THEN 0
                    ELSE ref.frag[c.fragment][g] \div ref.tot[g]]

\* Constraint.update_structure: the weight for the current geometry
update_structure(c, ref) == [c EXCEPT !.weight = update_w(c, ref)]

\* Sample.update_weights: the reference densities, then every constraint's weight
update_weights(cs, p) ==
    [rhopro |-> promolecule(p),
     cons |-> [k \in 1..Len(cs) |-> update_structure(cs[k], promolecule(p))]]


(***************************************************************************)
(* State.                                                                  *)
(***************************************************************************)
VARIABLES
    \* CDFTSolver
    job, optimizer, itscf, Vc_tot, pc, result,
    \* Sample
    cons, pos, rho_r, Ed, Ec, W, Fd, Fc, Fw, rhopro,
    \* the solver's position in solve_opt and the messages it printed
    istep, scfStatus, optStatus,
    \* the root-finder: the multipliers of the evaluation in progress, the value
    \* the last evaluation returned, the last two residuals it handed back
    Vs, ret, rfq,
    \* the engine as the adapter left it: the potential and the forces injected
    engVc, engFc,
    \* history: the first adapter operation of solve(), the adapter operations
    \* issued so far, the steps of the evaluation in progress, the steps of the
    \* geometry step in progress, whether the converged signal was raised in this
    \* solve_scf call and the operations issued after it, the number of constraints
    \* whose check_convergence ran in the last evaluation and the one that raised,
    \* the geometry the weights were computed for
    firstOp, ops, evlog, steplog, sigRaised, lateOps, nchecked, chkRaised, wgeom,
    forceConv, lateGeomOps,
    \* QboxDriver: where the adapter is, the step of _run_cmd it is at, the seconds
    \* slept in the wait in progress, the operation in progress and the commands it
    \* still has to send, the number of commands sent
    apc, astep, nsec, aop, opleft, ncmd,
    \* the files: the lock file exists, the command in the input file (0: empty),
    \* the commands appended to the complete input file
    lock, input_file, complete_input,
    \* the engine: where it is, the command it read, the commands it executed
    epc, ecmd, execd,
    \* history: the polls of the wait in progress, the steps of the _run_cmd in
    \* progress, the number of _run_cmd calls that returned
    npolls, cmdlog, acked

VARIABLES
    \* a constructor call looked at on its own: the class, the arguments (the
    \* tolerances, the donor's and the acceptor's atoms), where the call is, how it
    \* ended and the object it left (a sequence of none or one)
    kclass, kargs, kpc, kres, kobj,
    \* a parse of a result document looked at on its own: the operation, the atom
    \* entries of the document's last iteration, where the call is, how it ended,
    \* the force array it returned, the Sample's atom coordinates
    xop, xdoc, xpc, xres, xF, xcoord,
    \* a method of a constraint looked at on its own: the method, the fields of the
    \* constraint and of the Sample it reads (and their values before the call),
    \* where the call is, what it left or returned
    wop, win, win0, wpc, wout

VARIABLES
    \* one process: the class counter of CDFTSolver, the solvers and the adapters
    \* constructed so far, the output directories and the files of the archive
    \* folder in the working directory, the engine runs so far
    nsolver, solvers, drivers, outdirs, archive, nruns,
    \* history: the directories and files an instance deleted or overwrote, the
    \* last operation with the adapter's fields before it
    lost, lastop

ctorVars == <<kclass, kargs, kpc, kres, kobj>>
parseVars == <<xop, xdoc, xpc, xres, xF, xcoord>>
methodVars == <<wop, win, win0, wpc, wout>>
procVars == <<nsolver, solvers, drivers, outdirs, archive, nruns, lost, lastop>>
libVars == <<ctorVars, parseVars, methodVars, procVars>>

solverVars == <<job, optimizer, itscf, Vc_tot, pc, result, cons, pos, rho_r, Ed, Ec, W,
                Fd, Fc, Fw, istep, scfStatus, optStatus, Vs, ret, rfq, engVc, engFc,
                firstOp, ops, evlog, steplog, sigRaised, lateOps, nchecked, chkRaised,
                wgeom, forceConv, lateGeomOps, rhopro>>

adVars == <<apc, astep, nsec, aop, opleft, ncmd, lock, input_file, complete_input,
            epc, ecmd, execd, npolls, cmdlog, acked>>

vars == <<solverVars, adVars, libVars>>

\* groups of variables an action leaves alone
cfgVars == <<job, optimizer>>
scfVars == <<itscf, Vc_tot, cons, rho_r, Ed, Ec, W, scfStatus, Vs, ret, rfq, engVc, evlog,
             sigRaised, lateOps, nchecked, chkRaised, wgeom>>
optVars == <<pos, Fd, Fc, Fw, istep, optStatus, engFc, steplog, forceConv, lateGeomOps>>

\* No adapter session is modelled: the solver sees the adapter's operations whole.
AdapterIdle ==
    /\ apc = "off" /\ astep = 0 /\ nsec = 0 /\ aop = "none" /\ opleft = 0 /\ ncmd = 0
    /\ lock = FALSE /\ input_file = 0 /\ complete_input = 0
    /\ epc = "off" /\ ecmd = 0 /\ execd = << >>
    /\ npolls = 0 /\ cmdlog = << >> /\ acked = 0

\* No constructor call is looked at.
CtorIdle ==
    /\ kclass = "none" /\ kargs = << >> /\ kpc = "off" /\ kres = "none" /\ kobj = << >>

\* No parse is looked at.
ParseIdle ==
    /\ xop = "none" /\ xdoc = << >> /\ xpc = "off" /\ xres = "none"
    /\ xF = << >> /\ xcoord = << >>

\* No method of a constraint is looked at.
MethodIdle ==
    /\ wop = "none" /\ win = << >> /\ win0 = << >> /\ wpc = "off" /\ wout = << >>

\* No process is looked at.
ProcIdle ==
    /\ nsolver = 0 /\ solvers = << >> /\ drivers = << >> /\ outdirs = {} /\ archive = {}
    /\ nruns = 0 /\ lost = {} /\ lastop = << >>

LibIdle == CtorIdle /\ ParseIdle /\ MethodIdle /\ ProcIdle

\* The solver's variables after CDFTSolver.__init__, for a given job, strategy
\* and list of constraints.
SolverStart(j, opt, cs) ==
    /\ job = j /\ optimizer = opt /\ cons = cs
    /\ pos = <<1, 2>> /\ rhopro = NoPromolecule
    /\ itscf = None /\ Vc_tot = <<ZeroField>> /\ pc = "solve" /\ result = "running"
    /\ rho_r = <<ZeroField>> /\ Ed = None /\ Ec = None /\ W = None
    /\ Fd = ZeroForce /\ Fc = ZeroForce /\ Fw = ZeroForce
    /\ istep = 0 /\ scfStatus = "none" /\ optStatus = "none"
    /\ Vs = << >> /\ ret = [negW |-> 0, jac |-> << >>] /\ rfq = << >>
    /\ engVc = <<ZeroField>> /\ engFc = ZeroForce
    /\ firstOp = "none" /\ ops = {} /\ evlog = << >> /\ steplog = << >>
    /\ sigRaised = FALSE /\ lateOps = 0 /\ nchecked = 0 /\ chkRaised = 0
    /\ wgeom = << >> /\ forceConv = FALSE /\ lateGeomOps = 0

\* The state after CDFTSolver.__init__ on a Sample with its constraints attached:
\* every job tag, every strategy, up to two constraints with their tolerances.
Init ==
    /\ AdapterIdle
    /\ LibIdle
    /\ \E j \in Jobs : \E opt \in Optimizers : \E nc \in ConsCounts :
       \E tols \in [1..nc -> TolProfiles] :
          SolverStart(j, opt, [k \in 1..nc |-> NewConstraint(k, 1, 0, tols[k])])

(***************************************************************************)
(* The adapter as the solver sees it: every operation is one synchronous   *)
(* call that returns after the engine's acknowledgement (the lock-file     *)
(* protocol behind it is modelled further down).                           *)
(***************************************************************************)
Issue(op) ==
    /\ firstOp' = IF firstOp = "none" THEN op ELSE firstOp
    /\ ops' = ops \cup {op}

NoIssue == UNCHANGED <<firstOp, ops>>

\* an exception leaves solve(): nothing catches it
Raise(e) == result' = e /\ pc' = "done"

(***************************************************************************)
(* CDFTSolver.solve (cdft.py:65-75).                                       *)
(***************************************************************************)
\* a solve() that goes to the dispatch without the fetch of line 68
solve_without_fetch ==
    /\ pc = "solve"
    /\ pc' = "dispatch"
    /\ NoIssue
    /\ UNCHANGED <<adVars, libVars, rhopro, cfgVars, scfVars, optVars, result>>

\* line 68: the initial density fetch
solve_get_rho_r ==
    /\ pc = "solve"
    /\ \E r \in RhoFields : rho_r' = <<r>>
    /\ Issue("get_rho_r")
    /\ pc' = "dispatch"
    /\ UNCHANGED <<adVars, libVars, rhopro, cfgVars, optVars, result, itscf, Vc_tot, cons, Ed, Ec, W, scfStatus, Vs,
                   ret, rfq, engVc, evlog, sigRaised, lateOps, nchecked, chkRaised, wgeom>>

\* a dispatch whose last branch runs the SCF procedure instead of raising
dispatch_else_scf(j) == IF j = "opt" THEN "solve_opt" ELSE "solve_scf"

\* where solve() goes for a job tag: lines 69-74
dispatch(j) == IF j = "scf" THEN "solve_scf"
               ELSE IF j = "opt" THEN "solve_opt"
               ELSE "ValueError"

solve_dispatch ==
    /\ pc = "dispatch"
    /\ IF dispatch(job) = "ValueError"
       THEN Raise("ValueError")
       ELSE pc' = dispatch(job) /\ UNCHANGED result
    /\ NoIssue
    /\ UNCHANGED <<adVars, libVars, rhopro, cfgVars, scfVars, optVars>>

\* line 75: the wavefunction fetch that ends solve()
solve_get_wfc ==
    /\ pc = "get_wfc"
    /\ Issue("get_wfc")
    /\ pc' = "done" /\ result' = "ok"
    /\ UNCHANGED <<adVars, libVars, rhopro, cfgVars, scfVars, optVars>>


(***************************************************************************)
(* CDFTSolver.solve_scf (cdft.py:77-136).                                  *)
(***************************************************************************)
\* the assertion of lines 87-88 left out
count_unchecked(opt, ncons) == TRUE

\* lines 87-88: the scalar strategies take exactly one constraint
count_ok(opt, ncons) == opt \in ScalarOptimizers => ncons = 1

\* where solve_scf's caller continues: solve() line 75, or solve_opt line 211
\* a solver that goes to the end of solve() after every SCF solve
scf_then_wfc == "get_wfc"

AfterScf == IF job = "opt" THEN "get_force" ELSE "get_wfc"

\* lines 85-90: the weights for the current geometry, the assertion, the counter
solve_scf_enter ==
    /\ pc = "solve_scf"
    /\ cons' = update_weights(cons, pos).cons
    /\ rhopro' = update_weights(cons, pos).rhopro
    /\ wgeom' = pos
    /\ IF count_ok(optimizer, Len(cons))
       THEN /\ itscf' = 0 /\ pc' = "root_finder" /\ UNCHANGED result
            /\ sigRaised' = FALSE /\ rfq' = << >> /\ scfStatus' = "running"
       ELSE /\ Raise("AssertionError")
            /\ UNCHANGED <<itscf, sigRaised, rfq, scfStatus>>
    /\ NoIssue
    /\ UNCHANGED <<adVars, libVars, cfgVars, optVars, Vc_tot, rho_r, Ed, Ec, W, Vs, ret, engVc, evlog,
                   lateOps, nchecked, chkRaised>>

(***************************************************************************)
(* The root-finders of scipy.optimize, as solve_scf calls them (no disp,   *)
(* no full_output: the defaults).  A move is the next thing the            *)
(* root-finder does: evaluate the residual function at a multiplier        *)
(* vector, return a result, or raise.  Where scipy's arithmetic decides,   *)
(* the model allows every answer.                                          *)
(***************************************************************************)
Eval(v) == [kind |-> "eval", V |-> v, e |-> "-"]
Return(x) == [kind |-> "return", V |-> x, e |-> "-"]
Throw(e) == [kind |-> "raise", V |-> << >>, e |-> e]

\* newton(func, x0, maxiter) without fprime: the secant method.  Two initial
\* evaluations at x0 and at a point next to it, then at most maxiter steps with
\* one evaluation each; RuntimeError when they are spent or the secant is flat.
newton(nfev, q, x0) ==
    IF nfev = 0 THEN {Eval(<<x0>>)}
    ELSE IF nfev = 1 THEN {Eval(<<v>>) : v \in VVals \ {x0}}
    ELSE IF nfev - 2 >= MaxCscf THEN {Throw("RuntimeError")}
    ELSE IF q[1] = q[2] THEN {Throw("RuntimeError")} \cup {Return(<<v>>) : v \in VVals}
    ELSE {Return(<<v>>) : v \in VVals} \cup {Eval(<<v>>) : v \in VVals}

\* bisect, brentq, brenth (f, a, b, maxiter): f(a) and f(b), ValueError when they
\* have the same sign, then at most maxiter steps with one evaluation each;
\* RuntimeError when they are spent.
bracketed(nfev, q, brak) ==
    IF nfev = 0 THEN {Eval(<<brak[1]>>)}
    ELSE IF nfev = 1 THEN {Eval(<<brak[2]>>)}
    ELSE IF nfev = 2 /\ q[1] * q[2] > 0 THEN {Throw("ValueError")}
    ELSE IF nfev = 2 /\ (q[1] = 0 \/ q[2] = 0) THEN {Return(<<v>>) : v \in {brak[1], brak[2]}}
    ELSE (IF nfev > 2 THEN {Return(<<v>>) : v \in VVals} ELSE {})
         \cup (IF nfev - 2 < MaxCscf THEN {Eval(<<v>>) : v \in VVals}
               ELSE {Throw("RuntimeError")})

\* minimize(method="BFGS", fun, x0, jac=True, options={"maxiter"}): an evaluation
\* at x0, then at most maxiter iterations; always returns a result.
minimize(nfev, x0) ==
    IF nfev = 0 THEN {Eval(x0)}
    ELSE {Return(x) : x \in [1..Len(x0) -> VVals]}
         \cup (IF nfev - 1 < MaxCscf THEN {Eval(v) : v \in [1..Len(x0) -> VVals]} ELSE {})

\* lines 93-131: the strategy solve_scf hands the problem to
root_finder(opt, nfev, q, cs) ==
    IF opt = "secant" THEN newton(nfev, q, cs[1].V_init)
    ELSE IF opt \in {"bisect", "brentq", "brenth"} THEN bracketed(nfev, q, cs[1].V_brak)
    ELSE IF opt = "BFGS" THEN minimize(nfev, [k \in 1..Len(cs) |-> cs[k].V_init])
    ELSE {Throw("ValueError")}

\* what the call site does with the root-finder's result x (lines 94, 100, 107,
\* 114, 128-129): the bracketed strategies unpack a pair out of a float
assign_result(opt, cs, x) ==
    IF opt = "secant" THEN [cs EXCEPT ![1].V_init = x[1]]
    ELSE [k \in 1..Len(cs) |-> [cs[k] EXCEPT !.V_init = x[k]]]

unpack_fails(opt) == opt \in {"bisect", "brentq", "brenth"}

\* the root-finder asks for the residual at V
rf_eval ==
    /\ pc = "root_finder"
    /\ \E m \in root_finder(optimizer, itscf, rfq, cons) :
          /\ m.kind = "eval"
          /\ Vs' = m.V
    /\ pc' = "ev_update"
    /\ NoIssue
    /\ UNCHANGED <<adVars, libVars, rhopro, cfgVars, optVars, result, itscf, Vc_tot, cons, rho_r, Ed, Ec, W, scfStatus,
                   ret, rfq, engVc, evlog, sigRaised, lateOps, nchecked, chkRaised, wgeom>>

\* the root-finder returns: lines 94-129, then the else branch of line 135
rf_return ==
    /\ pc = "root_finder"
    /\ \E m \in root_finder(optimizer, itscf, rfq, cons) :
          /\ m.kind = "return"
          /\ IF unpack_fails(optimizer)
             THEN Raise("TypeError") /\ UNCHANGED <<cons, scfStatus>>
             ELSE /\ cons' = assign_result(optimizer, cons, m.V)
                  /\ scfStatus' = "not_converged"
                  /\ pc' = AfterScf /\ UNCHANGED result
    /\ NoIssue
    /\ UNCHANGED <<adVars, libVars, rhopro, cfgVars, optVars, itscf, Vc_tot, rho_r, Ed, Ec, W, Vs,
                   ret, rfq, engVc, evlog, sigRaised, lateOps, nchecked, chkRaised, wgeom>>

\* the root-finder raises, or line 131 does: except CDFTSCFConverged lets it pass
rf_raise ==
    /\ pc = "root_finder"
    /\ \E m \in root_finder(optimizer, itscf, rfq, cons) :
          /\ m.kind = "raise"
          /\ Raise(m.e)
    /\ NoIssue
    /\ UNCHANGED <<adVars, libVars, rhopro, cfgVars, scfVars, optVars>>


(***************************************************************************)
(* CDFTSolver.solve_scf_with_new_V (cdft.py:138-190): one residual         *)
(* evaluation.                                                             *)
(***************************************************************************)
\* number of spin channels of the constraint potential (sample.vspin)
vspin == 1

\* Constraint.update_Vc: the potential is V times the weight on every channel
update_Vc(c) == [c EXCEPT !.Vc = [s \in 1..vspin |-> [g \in Grid |-> c.V * c.weight[g]]]]

\* an assignment of the multipliers that moves V_init along with V
assign_V_and_init(cs, v) ==
    [k \in 1..Len(cs) |->
        IF k <= Len(v) THEN update_Vc([cs[k] EXCEPT !.V = v[k], !.V_init = v[k]]) ELSE cs[k]]

\* lines 145-147: each constraint takes its multiplier from Vs (zip stops at the
\* shorter of the two) and derives its potential
assign_V(cs, v) ==
    [k \in 1..Len(cs) |-> IF k <= Len(v) THEN update_Vc([cs[k] EXCEPT !.V = v[k]]) ELSE cs[k]]

\* a total potential that is the first constraint's potential
first_Vc(cs) == IF Len(cs) = 0 THEN << >> ELSE cs[1].Vc

\* line 150: np.sum over the constraints' potentials; without constraints the sum
\* of nothing is the number 0, which has no channels
sum_Vc(cs) ==
    IF Len(cs) = 0 THEN << >>
    ELSE [s \in 1..vspin |-> [g \in Grid |-> SumSeq([k \in 1..Len(cs) |-> cs[k].Vc[s][g]])]]

\* lines 140-150
ev_update ==
    /\ pc = "ev_update"
    /\ itscf' = itscf + 1
    /\ cons' = assign_V(cons, Vs)
    /\ Vc_tot' = sum_Vc(cons')
    /\ evlog' = <<"update_Vc", "sum_Vc">>
    /\ nchecked' = 0 /\ chkRaised' = 0
    /\ pc' = "ev_set_Vc"
    /\ NoIssue
    /\ UNCHANGED <<adVars, libVars, rhopro, cfgVars, optVars, result, rho_r, Ed, Ec, W, scfStatus, Vs, ret, rfq, engVc,
                   sigRaised, lateOps, wgeom>>

\* QboxDriver.set_Vc (qbox_driver.py:98): the potential must be an array with one
\* grid field per spin channel
set_Vc_accepts(Vc) == Len(Vc) = vspin

\* line 153: the potential goes to the engine
ev_set_Vc ==
    /\ pc = "ev_set_Vc"
    /\ Issue("set_Vc")
    /\ evlog' = Append(evlog, "set_Vc")
    /\ lateOps' = IF sigRaised THEN lateOps + 1 ELSE lateOps
    /\ IF set_Vc_accepts(Vc_tot)
       THEN engVc' = Vc_tot /\ pc' = "ev_run_scf" /\ UNCHANGED result
       ELSE Raise("AssertionError") /\ UNCHANGED engVc
    /\ UNCHANGED <<adVars, libVars, rhopro, cfgVars, optVars, itscf, Vc_tot, cons, rho_r, Ed, Ec, W, scfStatus, Vs, ret,
                   rfq, sigRaised, nchecked, chkRaised, wgeom>>

\* line 158: one minimization round; the engine reports its energies
ev_run_scf ==
    /\ pc = "ev_run_scf"
    /\ Issue("run_scf")
    /\ evlog' = Append(evlog, "run_scf")
    /\ lateOps' = IF sigRaised THEN lateOps + 1 ELSE lateOps
    /\ \E en \in EnergyVals : Ed' = en[1] /\ Ec' = en[2]
    /\ pc' = "ev_get_rho_r"
    /\ UNCHANGED <<adVars, libVars, rhopro, cfgVars, optVars, result, itscf, Vc_tot, cons, rho_r, W, scfStatus, Vs, ret,
                   rfq, engVc, sigRaised, nchecked, chkRaised, wgeom>>

\* line 159: the density the engine reached under the injected potential
ev_get_rho_r ==
    /\ pc = "ev_get_rho_r"
    /\ Issue("get_rho_r")
    /\ evlog' = Append(evlog, "get_rho_r")
    /\ \E r \in RhoFields : rho_r' = <<r>>
    /\ pc' = "ev_update_N"
    /\ UNCHANGED <<adVars, libVars, rhopro, cfgVars, optVars, result, itscf, Vc_tot, cons, Ed, Ec, W, scfStatus, Vs, ret,
                   rfq, engVc, sigRaised, lateOps, nchecked, chkRaised, wgeom>>

\* Constraint.update_N: N from the current density, then the converged flag
with_N(c, rho) == [c EXCEPT !.N = compute_N(c, rho)]
update_N(c, rho) == [with_N(c, rho) EXCEPT !.is_converged = check_convergence(with_N(c, rho)).value]

\* lines 162-163: the first constraint whose update raises, or 0
first_raising(cs, rho) ==
    LET bad == {k \in 1..Len(cs) : check_convergence(with_N(cs[k], rho)).raises}
    IN  IF bad = {} THEN 0 ELSE CHOOSE k \in bad : \A j \in bad : k <= j

\* lines 162-163: the constraints after the loop, or after the part of it that ran
update_all_N(cs, rho) ==
    LET r == first_raising(cs, rho)
    IN  [k \in 1..Len(cs) |-> IF r = 0 \/ k < r THEN update_N(cs[k], rho)
                              ELSE IF k = r THEN with_N(cs[k], rho)
                              ELSE cs[k]]

\* the free energy with the constraint energy Ec left out
free_energy_no_Ec(ed, ec, cs) == ed - SumSeq([k \in 1..Len(cs) |-> cs[k].N * cs[k].V])

\* line 164
free_energy(ed, ec, cs) == ed + ec - SumSeq([k \in 1..Len(cs) |-> cs[k].N * cs[k].V])

\* line 186
all_converged(cs) == \A k \in 1..Len(cs) : cs[k].is_converged

\* line 190
return_value(w, cs) == [negW |-> 0 - w, jac |-> [k \in 1..Len(cs) |-> 0 - dW_by_dV(cs[k])]]

\* what the root-finder receives: the scalar strategies go through
\* solve_scf_for_dW_by_dV (line 194), BFGS takes the pair
residual_seen(opt, rv) == IF opt = "BFGS" THEN 0 ELSE rv.jac[1]

\* lines 162-164: N and the flag of every constraint, then the free energy
ev_update_N ==
    /\ pc = "ev_update_N"
    /\ evlog' = Append(evlog, "update_N")
    /\ cons' = update_all_N(cons, rho_r)
    /\ chkRaised' = first_raising(cons, rho_r)
    /\ nchecked' = IF chkRaised' = 0 THEN Len(cons) ELSE chkRaised'
    /\ IF chkRaised' # 0
       THEN Raise("TypeError") /\ UNCHANGED W
       ELSE W' = free_energy(Ed, Ec, cons') /\ pc' = "ev_finish" /\ UNCHANGED result
    /\ NoIssue
    /\ UNCHANGED <<adVars, libVars, rhopro, cfgVars, optVars, itscf, Vc_tot, rho_r, Ed, Ec, scfStatus, Vs, ret,
                   rfq, engVc, sigRaised, lateOps, wgeom>>

\* lines 186-190: the converged signal, which solve_scf catches at line 133, or
\* the return to the root-finder
ev_finish ==
    /\ pc = "ev_finish"
    /\ IF all_converged(cons)
       THEN /\ sigRaised' = TRUE
            /\ scfStatus' = "converged"
            /\ pc' = AfterScf
            /\ UNCHANGED <<ret, rfq>>
       ELSE /\ ret' = return_value(W, cons)
            /\ rfq' = IF Len(rfq) < 2 THEN Append(rfq, residual_seen(optimizer, ret'))
                      ELSE <<rfq[2], residual_seen(optimizer, ret')>>
            /\ pc' = "root_finder"
            /\ UNCHANGED <<sigRaised, scfStatus>>
    /\ NoIssue
    /\ UNCHANGED <<adVars, libVars, rhopro, cfgVars, optVars, result, itscf, Vc_tot, cons, rho_r, Ed, Ec, W, Vs,
                   engVc, evlog, lateOps, nchecked, chkRaised, wgeom>>

(***************************************************************************)
(* CDFTSolver.solve_opt (cdft.py:196-253).                                 *)
(***************************************************************************)
\* line 202: the next step of the loop, or its else clause (line 253) once
\* maxstep steps are done
solve_opt_loop ==
    /\ pc = "solve_opt"
    /\ IF istep < MaxStep
       THEN /\ istep' = istep + 1
            /\ steplog' = <<"solve_scf">>
            /\ pc' = "solve_scf"
            /\ UNCHANGED optStatus
       ELSE /\ optStatus' = "not_converged"
            /\ pc' = "get_wfc"
            /\ UNCHANGED <<istep, steplog>>
    /\ NoIssue
    /\ UNCHANGED <<adVars, libVars, rhopro, cfgVars, scfVars, result, pos, Fd, Fc, Fw, engFc, forceConv, lateGeomOps>>

\* line 211: the engine's force
opt_get_force ==
    /\ pc = "get_force"
    /\ Issue("get_force")
    /\ steplog' = Append(steplog, "get_force")
    /\ Fd' \in ForceFields
    /\ pc' = "update_Fc"
    /\ UNCHANGED <<adVars, libVars, rhopro, cfgVars, scfVars, result, pos, Fc, Fw, istep, optStatus, engFc, forceConv,
                   lateGeomOps>>

\* ChargeConstraint.update_Fc (charge.py:32-40): on every atom, (omega * n) * V
\* times the integral of the density against the weight's gradient
update_Fc(c, grad) ==
    [c EXCEPT !.Fc = [a \in Atoms |-> <<(omega * n123) * c.V * grad[a][1],
                                        (omega * n123) * c.V * grad[a][2]>>]]

\* line 216: the sum of the constraints' forces
sum_Fc(cs) ==
    [a \in Atoms |-> <<SumSeq([k \in 1..Len(cs) |-> cs[k].Fc[a][1]]),
                       SumSeq([k \in 1..Len(cs) |-> cs[k].Fc[a][2]])>>]

\* line 218
total_force(fd, fc) == [a \in Atoms |-> <<fd[a][1] + fc[a][1], fd[a][2] + fc[a][2]>>]

\* lines 219-220 and 235: the largest Euclidean norm over the atoms is below the
\* threshold (norms are compared by their squares)
NormSq(v) == v[1] * v[1] + v[2] * v[2]
maxforce_below(fw, tol) == MaxSeq([a \in 1..Cardinality(Atoms) |-> NormSq(fw[a])]) < tol * tol

\* lines 214-237: the constraints' forces, the total force, the test
opt_update_Fc ==
    /\ pc = "update_Fc"
    /\ \E gr \in [1..Len(cons) -> GradFields] :
          cons' = [k \in 1..Len(cons) |-> update_Fc(cons[k], gr[k])]
    /\ Fc' = sum_Fc(cons')
    /\ Fw' = total_force(Fd, Fc')
    /\ steplog' = Append(steplog, "update_Fc")
    /\ IF maxforce_below(Fw', F_tol)
       THEN /\ optStatus' = "converged" /\ forceConv' = TRUE /\ pc' = "get_wfc"
       ELSE /\ pc' = "set_Fc" /\ UNCHANGED <<optStatus, forceConv>>
    /\ NoIssue
    /\ UNCHANGED <<adVars, libVars, rhopro, cfgVars, result, itscf, Vc_tot, rho_r, Ed, Ec, W, scfStatus, Vs, ret, rfq,
                   engVc, evlog, sigRaised, lateOps, nchecked, chkRaised, wgeom,
                   pos, Fd, istep, engFc, lateGeomOps>>

\* line 240: the constraint force goes to the engine
opt_set_Fc ==
    /\ pc = "set_Fc"
    /\ Issue("set_Fc")
    /\ steplog' = Append(steplog, "set_Fc")
    /\ engFc' = Fc
    /\ lateGeomOps' = IF forceConv THEN lateGeomOps + 1 ELSE lateGeomOps
    /\ pc' = "run_opt"
    /\ UNCHANGED <<adVars, libVars, rhopro, cfgVars, scfVars, result, pos, Fd, Fc, Fw, istep, optStatus, forceConv>>

\* line 243: one geometry step
opt_run_opt ==
    /\ pc = "run_opt"
    /\ Issue("run_opt")
    /\ steplog' = Append(steplog, "run_opt")
    /\ lateGeomOps' = IF forceConv THEN lateGeomOps + 1 ELSE lateGeomOps
    /\ pc' = "get_structure"
    /\ UNCHANGED <<adVars, libVars, rhopro, cfgVars, scfVars, result, pos, Fd, Fc, Fw, istep, optStatus, engFc,
                   forceConv>>

\* line 246: the atoms take the positions the engine moved them to
opt_get_structure ==
    /\ pc = "get_structure"
    /\ Issue("get_structure")
    /\ steplog' = Append(steplog, "get_structure")
    /\ lateGeomOps' = IF forceConv THEN lateGeomOps + 1 ELSE lateGeomOps
    /\ pos' \in Geometries
    /\ pc' = "update_structure"
    /\ UNCHANGED <<adVars, libVars, rhopro, cfgVars, scfVars, result, Fd, Fc, Fw, istep, optStatus, engFc, forceConv>>

\* lines 249-250: every constraint's weight for the new positions
opt_update_structure ==
    /\ pc = "update_structure"
    /\ cons' = [k \in 1..Len(cons) |-> update_structure(cons[k], rhopro)]
    /\ steplog' = Append(steplog, "update_structure")
    /\ pc' = "solve_opt"
    /\ NoIssue
    /\ UNCHANGED <<adVars, libVars, rhopro, cfgVars, result, itscf, Vc_tot, rho_r, Ed, Ec, W, scfStatus, Vs, ret, rfq,
                   engVc, evlog, sigRaised, lateOps, nchecked, chkRaised, wgeom,
                   pos, Fd, Fc, Fw, istep, optStatus, engFc, forceConv, lateGeomOps>>

Next ==
    \/ solve_get_rho_r
    \/ solve_dispatch
    \/ solve_get_wfc
    \/ solve_scf_enter
    \/ rf_eval
    \/ rf_return
    \/ rf_raise
    \/ ev_update
    \/ ev_set_Vc
    \/ ev_run_scf
    \/ ev_get_rho_r
    \/ ev_update_N
    \/ ev_finish
    \/ solve_opt_loop
    \/ opt_get_force
    \/ opt_update_Fc
    \/ opt_set_Fc
    \/ opt_run_opt
    \/ opt_get_structure
    \/ opt_update_structure

Spec == Init /\ [][Next]_vars


(***************************************************************************)
(* QboxDriver (dft_driver/qbox_driver.py) and the engine behind the lock   *)
(* file.  The engine creates the lock file when it is idle, waits for the  *)
(* client to remove it, reads the input file, runs the command and creates *)
(* the lock file again.                                                    *)
(***************************************************************************)
\* _sleep_seconds (line 19)
sleep_seconds == 2
\* _max_sleep_seconds (21600 at line 20), scaled down
max_sleep_seconds == 6
\* the commands one adapter session may send
MaxCmds == 6

\* the commands each operation sends through _run_cmd: one, but one per spin
\* channel for fetch_rhor (lines 134-135) and two per atom for set_force
\* (lines 172-179)
AdapterOps == {"set_Vc", "run_scf", "run_opt", "fetch_rhor", "set_force"}
CmdCount(op) == IF op = "fetch_rhor" THEN vspin
                ELSE IF op = "set_force" THEN 2 * Cardinality(Atoms)
                ELSE 1

\* a _run_cmd that removes the lock file before it writes the command
remove_first == <<"remove", "open", "write", "log", "wait">>

\* _run_cmd, lines 82-86, step by step: open(input_file, "w") empties the file,
\* write fills it, the command is logged, the lock file is removed, the wait starts
run_cmd_steps == <<"open", "write", "log", "remove", "wait">>

\* a wait that returns without looking at the lock file
no_wait(lockfile) == TRUE

\* _wait_lockfile line 68: the loop ends when the lock file is there
wait_over(lockfile) == lockfile
\* _wait_lockfile line 71
timed_out(sec) == sec > max_sleep_seconds

\* The solver is not running while an adapter session is looked at on its own.
SolverOff ==
    /\ SolverStart("scf", "secant", << >>)

\* QboxDriver.__init__ has reached line 57: it waits for the engine to start.
AdapterInit ==
    /\ SolverOff
    /\ LibIdle
    /\ apc = "poll" /\ astep = 0 /\ nsec = 0 /\ aop = "__init__" /\ opleft = 1 /\ ncmd = 0
    /\ lock = FALSE /\ input_file = 0 /\ complete_input = 0
    /\ epc = "starting" /\ ecmd = 0 /\ execd = << >>
    /\ npolls = 0 /\ cmdlog = << >> /\ acked = 0

\* line 68: one look at the lock file.  When it is there the wait returns: to line
\* 59 in __init__, else out of _run_cmd and, after its last command, out of the
\* operation.
a_poll ==
    /\ apc = "poll"
    /\ npolls' = npolls + 1
    /\ IF wait_over(lock)
       THEN IF ncmd = 0
            THEN /\ apc' = "run_cmd" /\ astep' = 1 /\ ncmd' = 1 /\ cmdlog' = << >>
                 /\ UNCHANGED <<opleft, acked>>
            ELSE /\ acked' = acked + 1
                 /\ opleft' = opleft - 1
                 /\ cmdlog' = Append(cmdlog, "return")
                 /\ IF opleft' = 0
                    THEN apc' = "idle" /\ astep' = 0 /\ UNCHANGED ncmd
                    ELSE apc' = "run_cmd" /\ astep' = 1 /\ ncmd' = ncmd + 1
       ELSE /\ apc' = "sleep"
            /\ UNCHANGED <<astep, ncmd, opleft, acked, cmdlog>>
    /\ UNCHANGED <<solverVars, libVars, nsec, aop, lock, input_file, complete_input, epc, ecmd, execd>>

\* lines 69-72: sleep, count the seconds, give up past the ceiling
a_sleep ==
    /\ apc = "sleep"
    /\ nsec' = nsec + sleep_seconds
    /\ apc' = IF timed_out(nsec') THEN "QboxLockfileError" ELSE "poll"
    /\ UNCHANGED <<solverVars, libVars, astep, aop, opleft, ncmd, lock, input_file, complete_input,
                   epc, ecmd, execd, npolls, cmdlog, acked>>

\* an operation of the adapter is called
a_call ==
    /\ apc = "idle"
    /\ \E op \in AdapterOps :
          /\ ncmd + CmdCount(op) <= MaxCmds
          /\ aop' = op
          /\ opleft' = CmdCount(op)
    /\ apc' = "run_cmd" /\ astep' = 1 /\ ncmd' = ncmd + 1
    /\ UNCHANGED <<solverVars, libVars, nsec, lock, input_file, complete_input, epc, ecmd, execd,
                   npolls, cmdlog, acked>>

\* line 82: open(..., "w") truncates the input file
a_open ==
    /\ apc = "run_cmd" /\ run_cmd_steps[astep] = "open"
    /\ input_file' = 0
    /\ cmdlog' = <<"open">>
    /\ astep' = astep + 1
    /\ UNCHANGED <<solverVars, libVars, apc, nsec, aop, opleft, ncmd, lock, complete_input, epc, ecmd,
                   execd, npolls, acked>>

\* line 82: the command is written
a_write ==
    /\ apc = "run_cmd" /\ run_cmd_steps[astep] = "write"
    /\ input_file' = ncmd
    /\ cmdlog' = Append(cmdlog, "write")
    /\ astep' = astep + 1
    /\ UNCHANGED <<solverVars, libVars, apc, nsec, aop, opleft, ncmd, lock, complete_input, epc, ecmd,
                   execd, npolls, acked>>

\* line 83: the command is appended to the complete input file
a_log ==
    /\ apc = "run_cmd" /\ run_cmd_steps[astep] = "log"
    /\ complete_input' = complete_input + 1
    /\ cmdlog' = Append(cmdlog, "log")
    /\ astep' = astep + 1
    /\ UNCHANGED <<solverVars, libVars, apc, nsec, aop, opleft, ncmd, lock, input_file, epc, ecmd,
                   execd, npolls, acked>>

\* line 85: os.remove raises when the lock file is not there
a_remove ==
    /\ apc = "run_cmd" /\ run_cmd_steps[astep] = "remove"
    /\ IF lock
       THEN lock' = FALSE /\ astep' = astep + 1 /\ UNCHANGED apc
       ELSE apc' = "FileNotFoundError" /\ UNCHANGED <<lock, astep>>
    /\ cmdlog' = Append(cmdlog, "remove")
    /\ UNCHANGED <<solverVars, libVars, nsec, aop, opleft, ncmd, input_file, complete_input, epc, ecmd,
                   execd, npolls, acked>>

\* line 86, and line 67: the wait starts with no second slept
a_wait ==
    /\ apc = "run_cmd" /\ run_cmd_steps[astep] = "wait"
    /\ nsec' = 0 /\ npolls' = 0
    /\ apc' = "poll"
    /\ cmdlog' = Append(cmdlog, "wait")
    /\ UNCHANGED <<solverVars, libVars, astep, aop, opleft, ncmd, lock, input_file, complete_input,
                   epc, ecmd, execd, acked>>

\* the engine has started and says so
e_start ==
    /\ epc = "starting"
    /\ lock' = TRUE /\ epc' = "ready"
    /\ UNCHANGED <<solverVars, libVars, apc, astep, nsec, aop, opleft, ncmd, input_file,
                   complete_input, ecmd, execd, npolls, cmdlog, acked>>

\* the engine sees the lock file gone and reads the input file
e_read ==
    /\ epc = "ready" /\ ~lock
    /\ ecmd' = input_file /\ epc' = "running"
    /\ UNCHANGED <<solverVars, libVars, apc, astep, nsec, aop, opleft, ncmd, lock, input_file,
                   complete_input, execd, npolls, cmdlog, acked>>

\* the engine has run the command it read and says so
e_done ==
    /\ epc = "running"
    /\ execd' = Append(execd, ecmd)
    /\ lock' = TRUE /\ epc' = "ready"
    /\ UNCHANGED <<solverVars, libVars, apc, astep, nsec, aop, opleft, ncmd, input_file,
                   complete_input, ecmd, npolls, cmdlog, acked>>

AdapterNext ==
    \/ a_poll
    \/ a_sleep
    \/ a_call
    \/ a_open
    \/ a_write
    \/ a_log
    \/ a_remove
    \/ a_wait
    \/ e_start
    \/ e_read
    \/ e_done

AdapterSpec == AdapterInit /\ [][AdapterNext]_vars


(***************************************************************************)
(* The constructors of the constraints, each looked at as one call         *)
(* (constraint/base.py:29-50, charge.py:17-22, charge_transfer.py:18-27).  *)
(***************************************************************************)
\* the elements of a list
ToSet(l) == {l[i] : i \in 1..Len(l)}

\* the atom lists a fragment can hold
AtomLists == {<< >>, <<1>>, <<2>>, <<1, 2>>}
\* the tolerances Constraint.__init__ can be called with
TolArgs == [1..3 -> {None, 1}]
\* the defaults of base.py:30 (Ntol=None, Vtol=None, dVtol=1.0E-2)
DefaultTol == <<None, None, 1>>
KClasses == {"Constraint", "ChargeConstraint", "ChargeTransferConstraint"}

\* the parameters of Constraint.__init__ after self (base.py:29-30); the first
\* three have no default
Constraint_params == <<"sample", "N0", "optimizer", "V_init", "Ntol", "Vtol", "dVtol">>
Constraint_required == 3
\* the attributes Constraint.__init__ sets (base.py:35-50)
Constraint_attrs == {"sample", "N0", "optimizer", "V", "V_old", "Ntol", "Vtol", "dVtol",
                     "type", "Vc", "weight", "N", "is_converged"}

\* Python binds a call with npos positional arguments and the keywords kw to a
\* signature: no keyword the signature does not have, none for a parameter
\* already bound, every parameter without default bound
call_binds(params, nreq, npos, kw) ==
    /\ npos <= Len(params)
    /\ \A k \in kw : \E i \in (npos + 1)..Len(params) : params[i] = k
    /\ \A i \in (npos + 1)..nreq : params[i] \in kw

\* the keywords of the super().__init__ call of charge.py:19-21 and
\* charge_transfer.py:20-22, after the two positional arguments sample and N0
super_keywords == {"V_init", "V_brak", "N_tol"}

Failed(e) == [res |-> e, obj |-> << >>]

\* Constraint.__init__, base.py:29-50
Constraint_init(tol) ==
    IF ConstraintInitRaises(tol[1], tol[2], tol[3]) THEN Failed("ValueError")
    ELSE [res |-> "ok", obj |-> <<NewConstraint(1, 1, 0, tol)>>]

\* ChargeConstraint.__init__, charge.py:17-22
ChargeConstraint_init(fragment) ==
    IF ~call_binds(Constraint_params, Constraint_required, 2, super_keywords)
    THEN Failed("TypeError")
    ELSE Constraint_init(DefaultTol)

\* charge_transfer.py:26
partition_assert(donor, acceptor) == ToSet(donor \o acceptor) = Atoms

\* ChargeTransferConstraint.__init__, charge_transfer.py:18-27
ChargeTransferConstraint_init(donor, acceptor) ==
    IF ~call_binds(Constraint_params, Constraint_required, 2, super_keywords)
    THEN Failed("TypeError")
    ELSE LET b == Constraint_init(DefaultTol)
         IN  IF b.res # "ok" THEN b
             ELSE IF ~partition_assert(donor, acceptor) THEN Failed("AssertionError")
             ELSE IF "N_tol" \notin Constraint_attrs THEN Failed("AttributeError")
             ELSE b

\* a constructor call is about to be made
CtorStart ==
    /\ kpc = "call" /\ kres = "none" /\ kobj = << >>
    /\ kclass \in KClasses
    /\ \/ /\ kclass = "Constraint"
          /\ \E t \in TolArgs : kargs = [tol |-> t, donor |-> << >>, acceptor |-> << >>]
       \/ /\ kclass = "ChargeConstraint"
          /\ \E f \in AtomLists : kargs = [tol |-> DefaultTol, donor |-> f, acceptor |-> << >>]
       \/ /\ kclass = "ChargeTransferConstraint"
          /\ \E d \in AtomLists : \E a \in AtomLists :
                kargs = [tol |-> DefaultTol, donor |-> d, acceptor |-> a]

(***************************************************************************)
(* QboxDriver.fetch_force and fetch_structure (qbox_driver.py:149-195):    *)
(* the parse of the atom entries of a result document's last iteration.    *)
(* The Sample has the atoms O and H, which the engine knows as O1 and H2.  *)
(***************************************************************************)
\* the symbols of sample.atoms, in order
symbols == <<"O", "H">>
natoms == Len(symbols)
\* the entries a document may hold
MaxEntries == 2
\* an atom entry: the symbol and the index of its name, the force or position it
\* carries (a number stands for the vector)
Entries == [symbol : {"O", "H"}, index : 1..(natoms + 1), value : {1, 2}]
Documents == UNION {[1..n -> Entries] : n \in 0..MaxEntries}

\* a parse that leaves out the comparison of the symbols
entry_error_no_assert(e) == IF e.index - 1 >= natoms THEN "IndexError" ELSE "none"

\* lines 158-160 and 188-190: the name is split into symbol and index, and the
\* symbol is compared with the one of atoms[index - 1]
entry_error(e) ==
    IF e.index - 1 >= natoms THEN "IndexError"
    ELSE IF symbols[e.index] # e.symbol THEN "AssertionError"
    ELSE "none"

\* the loop over the atom entries (lines 157-165 and 187-195): arr[index - 1] takes
\* the entry's value, until an entry raises
RECURSIVE parse_atoms(_, _)
parse_atoms(doc, arr) ==
    IF doc = << >> THEN [err |-> "none", arr |-> arr]
    ELSE IF entry_error(Head(doc)) # "none" THEN [err |-> entry_error(Head(doc)), arr |-> arr]
    ELSE parse_atoms(Tail(doc), [arr EXCEPT ![Head(doc).index] = Head(doc).value])

\* line 152: Fdft = np.zeros([natoms, 3])
Fdft0 == [i \in 1..natoms |-> 0]

\* a parse is about to be made
ParseStart ==
    /\ xop \in {"fetch_force", "fetch_structure"}
    /\ xdoc \in Documents
    /\ xpc = "call" /\ xres = "none" /\ xF = << >>
    /\ xcoord = [i \in 1..natoms |-> 0]

\* fetch_force: the array is returned when no entry raised
fetch_force ==
    /\ xpc = "call" /\ xop = "fetch_force"
    /\ LET r == parse_atoms(xdoc, Fdft0)
       IN  /\ xres' = (IF r.err = "none" THEN "ok" ELSE r.err)
           /\ xF' = (IF r.err = "none" THEN r.arr ELSE xF)
    /\ xpc' = "done"
    /\ UNCHANGED <<solverVars, adVars, procVars, ctorVars, methodVars, xop, xdoc, xcoord>>

\* fetch_structure: the atoms' coordinates are assigned as the entries are read
fetch_structure ==
    /\ xpc = "call" /\ xop = "fetch_structure"
    /\ LET r == parse_atoms(xdoc, xcoord)
       IN  /\ xres' = (IF r.err = "none" THEN "ok" ELSE r.err)
           /\ xcoord' = r.arr
    /\ xpc' = "done"
    /\ UNCHANGED <<solverVars, adVars, procVars, ctorVars, methodVars, xop, xdoc, xF>>

(***************************************************************************)
(* The methods of a constraint, each looked at as one call on given        *)
(* fields: update_w (charge.py:24-30, charge_transfer.py:29-37),           *)
(* compute_Vc (base.py:116-120) and compute_N (base.py:104-109).  A value  *)
(* of a numpy array is a number, nan or inf.                               *)
(***************************************************************************)
Num(n) == [kind |-> "num", v |-> n]
NaN == [kind |-> "nan", v |-> 0]
Inf == [kind |-> "inf", v |-> 0]

\* numpy's x / y on array elements: a division by zero gives nan or inf and a
\* warning, it does not raise
np_divide(x, y) == IF y # 0 THEN Num(x \div y) ELSE IF x = 0 THEN NaN ELSE Inf

\* a clipping that reaches only the points of negative reference density
clip_negative(w, tot) == [g \in Grid |-> IF tot[g] < 0 THEN Num(0) ELSE w[g]]

\* charge.py:26 and charge_transfer.py:33: w[rhopro_tot_r < eps] = 0.0
clip_w(w, tot) == [g \in Grid |-> IF tot[g] < eps THEN Num(0) ELSE w[g]]

\* charge.py:27-30 and charge_transfer.py:34-37: the spin axis
spin_axis(w, ns) == IF ns = 1 THEN <<w>> ELSE <<w, w>>

\* ChargeConstraint.update_w on the fragment's and the total reference density
charge_w(frag, tot, ns) ==
    spin_axis(clip_w([g \in Grid |-> np_divide(frag[g], tot[g])], tot), ns)

\* ChargeTransferConstraint.update_w
charge_transfer_w(donor, acceptor, tot, ns) ==
    spin_axis(clip_w([g \in Grid |-> np_divide(donor[g] - acceptor[g], tot[g])], tot), ns)

\* np.append(a, a, axis=0): the rows of a, twice
np_append(a) == a \o a

\* np.reshape to ns blocks of n rows: an error unless the sizes agree
np_reshape(a, ns, n) ==
    IF Len(a) # ns * n THEN [err |-> "ValueError", arr |-> << >>]
    ELSE [err |-> "none",
          arr |-> [s \in 1..ns |-> [g \in 1..n |-> a[(s - 1) * n + g]]]]

\* Constraint.compute_Vc, base.py:119-120
compute_Vc(V, weight, nspin) ==
    LET r == np_reshape(np_append(weight), nspin, Len(weight))
    IN  [err |-> r.err,
         Vc |-> [s \in 1..Len(r.arr) |-> [g \in 1..Len(weight) |-> V * r.arr[s][g]]]]

\* the reference densities at a grid point: the total, the donor's (or the
\* fragment's) and the acceptor's.  An interpolated density can be slightly
\* negative, and a reference density of 0 can meet a fragment density that is not.
DensityPoints == {<<0 - 1, 0 - 1, 0>>, <<0 - 1, 0, 0 - 1>>, <<0, 0, 0>>, <<0, 1, 0 - 1>>,
                  <<1, 1, 0>>, <<1, 0, 1>>, <<2, 2, 0>>, <<2, 0, 2>>}
SpinCounts == {1, 2}
WeightFields == [Grid -> {0, 1}]
MethodVVals == {0, 1, 2}
MethodRhos == {<<r>> : r \in RhoFields} \cup {<<r, r>> : r \in RhoFields}
               \cup {<<<<1, 0>>, <<0, 2>>>>}

NoField == [g \in Grid |-> 0]
MethodInput(tot, donor, acceptor, weight, rho, V, nspin, vs) ==
    [tot |-> tot, donor |-> donor, acceptor |-> acceptor, weight |-> weight, rho |-> rho,
     V |-> V, N0 |-> 1, N |-> None, nspin |-> nspin, vspin |-> vs]

(***************************************************************************)
(* QboxDriver.fetch_rhor (qbox_driver.py:127-146), looked at as one call.  *)
(* A field on a grid of shape <<n1, n2, n3>> is a function of the index    *)
(* triples, counted from 0 as numpy counts them.                           *)
(***************************************************************************)
\* the largest extent of the grid along an axis
MaxExtent == 3

GridShapes == (1..MaxExtent) \X (1..MaxExtent) \X (1..MaxExtent)
Indices(shape) == (0..(shape[1] - 1)) \X (0..(shape[2] - 1)) \X (0..(shape[3] - 1))

\* the fields a cube file may hold: every point its own value (from a base that
\* tells the spin channels apart), or planes of equal values
CubeFields(shape) ==
    {[idx \in Indices(shape) |->
         base + (idx[1] * shape[2] + idx[2]) * shape[3] + idx[3]] : base \in {0, 100}}
    \cup {[idx \in Indices(shape) |-> idx[1]]}

\* a roll towards the lower indices
np_roll_back(a, shift, axis, shape) ==
    [idx \in Indices(shape) |->
        a[[idx EXCEPT ![axis] = (idx[axis] + shift) % shape[axis]]]]

\* np.roll(a, shift, axis): the element at i moves to (i + shift) mod n
np_roll(a, shift, axis, shape) ==
    [idx \in Indices(shape) |->
        a[[idx EXCEPT ![axis] = (idx[axis] - shift + shape[axis]) % shape[axis]]]]

\* lines 141-145
shifted(rhor_raw, shape) ==
    LET n1 == shape[1]
        n2 == shape[2]
        n3 == shape[3]
        rhor1 == np_roll(rhor_raw, n1 \div 2, 1, shape)
        rhor2 == np_roll(rhor1, n2 \div 2, 2, shape)
        rhor3 == np_roll(rhor2, n3 \div 2, 3, shape)
    IN  rhor3

\* lines 135-138: the command of spin channel ispin (counted from 0); the spin
\* is named only in a spin-polarized system
plot_cmd(ispin, nspin) == <<"plot -density", IF nspin = 2 THEN ispin + 1 ELSE 0>>

\* a density fetch is about to be made: the shape of the grid, the spin channels
\* and the field the engine writes for each
FetchStart ==
    /\ wop = "fetch_rhor"
    /\ \E shape \in GridShapes : \E ns \in SpinCounts :
       \E raw \in [1..ns -> CubeFields(shape)] :
          win = [shape |-> shape, nspin |-> ns, raw |-> raw]

\* fetch_rhor: one command, one read and one shifted field per spin channel
fetch_rhor ==
    /\ wpc = "call" /\ wop = "fetch_rhor"
    /\ wout' = [cmds |-> [s \in 1..win.nspin |-> plot_cmd(s - 1, win.nspin)],
                rhor |-> [s \in 1..win.nspin |-> shifted(win.raw[s], win.shape)]]
    /\ wpc' = "done"
    /\ UNCHANGED <<solverVars, adVars, procVars, ctorVars, parseVars, wop, win, win0>>

(***************************************************************************)
(* The orbital collections of a Wavefunction (common/wfc.py): the maps     *)
(* between (spin, kpoint, band) and the dense index built by               *)
(* Wavefunction.__init__, and _CollectionManager's _get_idx, __getitem__   *)
(* and __setitem__.  A wavefunction is a record of nspin and of nbnd, the  *)
(* number of bands of every spin (at the one k point); spins, k points,    *)
(* bands and dense indices count from 0.  A dict is a function of its keys.*)
(***************************************************************************)
\* the largest number of bands of a spin
MaxBands == 2

\* line 109: one k point
nkpt == 1

Wavefunctions == {[nspin |-> ns, nbnd |-> nb] : ns \in SpinCounts, nb \in [0..1 -> 1..MaxBands]}

\* a key is a dense index or a (spin, kpoint, band) tuple
IntKey(i) == [form |-> "int", s |-> 0, k |-> 0, b |-> 0, idx |-> i]
SkbKey(s, k, b) == [form |-> "skb", s |-> s, k |-> k, b |-> b, idx |-> 0]
SkbKeys == {SkbKey(s, k, b) : s \in (0 - 1)..2, k \in (0 - 1)..(nkpt + 1),
                              b \in (0 - 1)..(MaxBands + 1)}

\* lines 133-138: the orbitals in the order of their dense index
RECURSIVE skb_upto(_, _)
skb_upto(w, ispin) ==
    IF ispin < 0 THEN << >>
    ELSE skb_upto(w, ispin - 1) \o [ibnd \in 1..w.nbnd[ispin] |-> <<ispin, 0, ibnd - 1>>]
idx_skb_map(w) == skb_upto(w, w.nspin - 1)

\* skb2idx, lines 159-164: the dense index, None for a tuple that is not in the map
skb2idx(w, skb) ==
    LET hits == {i \in 1..Len(idx_skb_map(w)) : idx_skb_map(w)[i] = skb}
    IN  IF hits = {} THEN None ELSE (CHOOSE i \in hits : TRUE) - 1

\* the range tests of lines 31-33 with strict upper limits
in_range_strict(w, key) ==
    /\ 0 <= key.s /\ key.s < w.nspin
    /\ 0 <= key.k /\ key.k < nkpt
    /\ 0 <= key.b /\ key.b < w.nbnd[key.s]

\* lines 31-33: the three assertions (their upper limits are inclusive) and the
\* lookup nbnd[ispin, ikpt], which numpy refuses beyond the array
in_range(w, key) ==
    /\ 0 <= key.s /\ key.s <= w.nspin
    /\ 0 <= key.k /\ key.k <= nkpt
    /\ 0 <= key.b
    /\ key.s < w.nspin /\ key.k < nkpt
    /\ key.b <= w.nbnd[key.s]

\* _get_idx, lines 23-41
get_idx(w, key) ==
    IF key.form = "int" THEN [err |-> "none", idx |-> key.idx]
    ELSE IF ~in_range(w, key) THEN [err |-> "IndexError", idx |-> None]
    ELSE [err |-> "none", idx |-> skb2idx(w, <<key.s, key.k, key.b>>)]

\* the default transform of line 12
transform(f) == f

\* __getitem__, lines 43-47: a key that is not in the dict gives None
getitem(w, qty, key) ==
    LET r == get_idx(w, key)
    IN  IF r.err # "none" THEN [err |-> r.err, val |-> None]
        ELSE [err |-> "none", val |-> IF r.idx \in DOMAIN qty THEN qty[r.idx] ELSE None]

\* __setitem__, lines 49-51
setitem(w, qty, key, value) ==
    LET r == get_idx(w, key)
    IN  IF r.err # "none" THEN [err |-> r.err, qty |-> qty]
        ELSE [err |-> "none",
              qty |-> [i \in DOMAIN qty \cup {r.idx} |->
                          IF i = r.idx THEN transform(value) ELSE qty[i]]]

\* a collection is about to be written and read with a tuple
CollectionStart ==
    /\ wop = "collection"
    /\ \E w \in Wavefunctions : \E key \in SkbKeys : \E v \in {1, 2} :
          win = [wfc |-> [w EXCEPT !.nbnd = [s \in 0..(w.nspin - 1) |-> w.nbnd[s]]],
                 key |-> key, value |-> v]

NotRead == [err |-> "not read", val |-> None]

\* psig[key] = value on an empty collection
collection_setitem ==
    /\ wpc = "call" /\ wop = "collection"
    /\ LET r == setitem(win.wfc, << >>, win.key, win.value)
       IN  wout' = [set |-> r.err, qty |-> r.qty, get |-> NotRead, get_int |-> NotRead]
    /\ wpc' = "again"
    /\ UNCHANGED <<solverVars, adVars, procVars, ctorVars, parseVars, wop, win, win0>>

\* psig[key], and psig[idx] with the dense index of the tuple where it has one
collection_getitem ==
    /\ wpc = "again" /\ wop = "collection"
    /\ LET r == get_idx(win.wfc, win.key)
       IN  wout' = [wout EXCEPT
                      !.get = getitem(win.wfc, wout.qty, win.key),
                      !.get_int = IF r.err = "none" /\ r.idx # None
                                  THEN getitem(win.wfc, wout.qty, IntKey(r.idx))
                                  ELSE NotRead]
    /\ wpc' = "done"
    /\ UNCHANGED <<solverVars, adVars, procVars, ctorVars, parseVars, wop, win, win0>>

\* a method is about to be called
MethodStart ==
    /\ wpc = "call" /\ wout = << >>
    /\ \/ /\ wop \in {"charge.update_w", "charge_transfer.update_w"}
          /\ \E pts \in [Grid -> DensityPoints] : \E ns \in SpinCounts :
                win = MethodInput([g \in Grid |-> pts[g][1]], [g \in Grid |-> pts[g][2]],
                                  [g \in Grid |-> pts[g][3]], NoField, <<NoField>>, 0, ns, ns)
       \/ /\ wop = "compute_Vc"
          /\ \E w \in WeightFields : \E V \in MethodVVals :
             \E ns \in SpinCounts : \E vs \in SpinCounts :
                win = MethodInput(NoField, NoField, NoField, w, <<NoField>>, V, ns, vs)
       \/ /\ wop = "compute_N"
          /\ \E w \in WeightFields : \E rho \in MethodRhos :
                win = MethodInput(NoField, NoField, NoField, w, rho, 0, Len(rho), 1)
       \/ FetchStart
       \/ CollectionStart
    /\ win0 = win

charge_update_w ==
    /\ wpc = "call" /\ wop = "charge.update_w"
    /\ wout' = charge_w(win.donor, win.tot, win.nspin)
    /\ wpc' = "done"
    /\ UNCHANGED <<solverVars, adVars, procVars, ctorVars, parseVars, wop, win, win0>>

charge_transfer_update_w ==
    /\ wpc = "call" /\ wop = "charge_transfer.update_w"
    /\ wout' = charge_transfer_w(win.donor, win.acceptor, win.tot, win.vspin)
    /\ wpc' = "done"
    /\ UNCHANGED <<solverVars, adVars, procVars, ctorVars, parseVars, wop, win, win0>>

\* compute_Vc returns the array or raises
call_compute_Vc ==
    /\ wpc = "call" /\ wop = "compute_Vc"
    /\ wout' = <<compute_Vc(win.V, win.weight, win.nspin)>>
    /\ wpc' = "done"
    /\ UNCHANGED <<solverVars, adVars, procVars, ctorVars, parseVars, wop, win, win0>>

\* compute_N is called, and called again: it assigns nothing
call_compute_N ==
    /\ wpc \in {"call", "again"} /\ wop = "compute_N"
    /\ wout' = Append(wout, compute_N(win, win.rho))
    /\ wpc' = IF wpc = "call" THEN "again" ELSE "done"
    /\ UNCHANGED <<solverVars, adVars, procVars, ctorVars, parseVars, wop, win, win0>>

\* one call is looked at: a constructor, a parse or a method of a constraint
LibInit ==
    /\ SolverOff /\ AdapterIdle /\ ProcIdle
    /\ \/ CtorStart /\ ParseIdle /\ MethodIdle
       \/ CtorIdle /\ ParseStart /\ MethodIdle
       \/ CtorIdle /\ ParseIdle /\ MethodStart

Constructed(r) == kres' = r.res /\ kobj' = r.obj /\ kpc' = "done"

construct_Constraint ==
    /\ kpc = "call" /\ kclass = "Constraint"
    /\ Constructed(Constraint_init(kargs.tol))
    /\ UNCHANGED <<solverVars, adVars, procVars, parseVars, methodVars, kclass, kargs>>

construct_ChargeConstraint ==
    /\ kpc = "call" /\ kclass = "ChargeConstraint"
    /\ Constructed(ChargeConstraint_init(kargs.donor))
    /\ UNCHANGED <<solverVars, adVars, procVars, parseVars, methodVars, kclass, kargs>>

construct_ChargeTransferConstraint ==
    /\ kpc = "call" /\ kclass = "ChargeTransferConstraint"
    /\ Constructed(ChargeTransferConstraint_init(kargs.donor, kargs.acceptor))
    /\ UNCHANGED <<solverVars, adVars, procVars, parseVars, methodVars, kclass, kargs>>

LibNext ==
    \/ construct_Constraint
    \/ construct_ChargeConstraint
    \/ construct_ChargeTransferConstraint
    \/ fetch_force
    \/ fetch_structure
    \/ charge_update_w
    \/ charge_transfer_update_w
    \/ call_compute_Vc
    \/ call_compute_N
    \/ fetch_rhor
    \/ collection_setitem
    \/ collection_getitem

LibSpec == LibInit /\ [][LibNext]_vars

(***************************************************************************)
(* One process: CDFTSolver.__init__ (cdft.py:36-63), QboxDriver.__init__   *)
(* (qbox_driver.py:25-59) and the operations of an adapter as far as they  *)
(* touch the adapter's fields and the files of the working directory.  A   *)
(* path is a pair of a word and a number, "iter3.out" is <<"iter", 3>>; a  *)
(* transcript or a result document is the number of the operation that     *)
(* made the engine write it.                                               *)
(***************************************************************************)
\* the solvers, the adapters and the adapter operations of one process
MaxSolvers == 2
MaxDrivers == 2
MaxRuns == 3

\* _archive_folder (qbox_driver.py:25): a class attribute, one path for every
\* adapter d
archive_folder(d) == "qbox_outputs"

\* cdft.py:57
output_path(isolver) == <<"solver", isolver>>

\* qbox_driver.py:44-47, and the archive folder lines 49-53 work on
QboxDriver_init(d) ==
    [iter |-> 0, scf_xml |-> None, opt_xml |-> None,
     archive_folder |-> archive_folder(d), output_path |-> << >>]

\* DFTDriver.reset(output_path), called at cdft.py:63: the adapter is told the
\* solver's output path.  QboxDriver defines no reset of its own, so the one that
\* runs knows none of QboxDriver's fields.
reset(drv, path) == [drv EXCEPT !.output_path = path]

\* a run_scf that leaves the counter alone
iter_kept(it) == it

\* run_scf line 108
run_scf_iter(it) == it + 1

\* the archive names of lines 111 and 122
scf_name(it) == <<"iter", it>>
opt_name(it) == <<"iter_opt", it>>

\* shutil.rmtree(folder) followed by os.makedirs(folder): the files that go
rmtree(files, folder) == {f \in files : f.folder = folder}

\* shutil.copyfile(output_file, folder/name): the file it replaces, if any
replaced(files, folder, name) == {f \in files : f.folder = folder /\ f.name = name}

\* what an instance did to the files of the instance that wrote them
Lost(what, fs, actor, kind) ==
    {[what |-> what, name |-> f.name, victim |-> f.by, actor |-> actor, kind |-> kind] :
        f \in fs}

\* the operations that send commands and assign no field of the adapter: set_Vc
\* (lines 88-103), fetch_rhor (127-146), set_force (170-179), clean (198-210)
OtherOps == {"set_Vc", "fetch_rhor", "set_force", "clean"}

\* the adapters a solver of the process was constructed with: solve() calls their
\* operations
Owned == {solvers[i].dft_driver : i \in 1..Len(solvers)}

\* The process has started: no solver, no adapter; the output directory of
\* solver 1 may be there from an earlier process (by 0).
ProcInit ==
    /\ SolverOff /\ AdapterIdle /\ CtorIdle /\ ParseIdle /\ MethodIdle
    /\ nsolver = 0 /\ solvers = << >> /\ drivers = << >>
    /\ outdirs \in {{}, {[folder |-> "pycdft_outputs", name |-> output_path(1), by |-> 0]}}
    /\ archive = {} /\ nruns = 0 /\ lost = {} /\ lastop = << >>

\* QboxDriver.__init__, lines 27-59: the counter, the result documents, the
\* archive folder emptied when it is there
new_QboxDriver ==
    /\ Len(drivers) < MaxDrivers
    /\ LET d == Len(drivers) + 1
           drv == QboxDriver_init(d)
           gone == rmtree(archive, drv.archive_folder)
       IN  /\ drivers' = Append(drivers, drv)
           /\ archive' = archive \ gone
           /\ lost' = lost \cup Lost("transcript", gone, d, "rmtree")
           /\ lastop' = <<[op |-> "__init__", d |-> d, before |-> drv]>>
    /\ UNCHANGED <<solverVars, adVars, ctorVars, parseVars, methodVars,
                   nsolver, solvers, outdirs, nruns>>

\* CDFTSolver.__init__, lines 38-63, with an adapter constructed before
new_CDFTSolver ==
    /\ Len(solvers) < MaxSolvers
    /\ \E d \in 1..Len(drivers) :
          LET isolver == nsolver + 1
              path == output_path(isolver)
              gone == {x \in outdirs : x.name = path}
          IN  /\ nsolver' = isolver
              /\ solvers' = Append(solvers, [isolver |-> isolver, output_path |-> path,
                                             dft_driver |-> d])
              /\ outdirs' = (outdirs \ gone)
                               \cup {[folder |-> "pycdft_outputs", name |-> path,
                                      by |-> isolver]}
              /\ lost' = lost \cup Lost("directory", gone, isolver, "rmtree")
              /\ drivers' = [drivers EXCEPT ![d] = reset(@, path)]
              /\ lastop' = <<[op |-> "reset", d |-> d, before |-> drivers[d]]>>
    /\ UNCHANGED <<solverVars, adVars, ctorVars, parseVars, methodVars, archive, nruns>>

\* run_scf, lines 105-115
run_scf ==
    /\ nruns < MaxRuns
    /\ \E d \in Owned :
          LET drv == drivers[d]
              it == run_scf_iter(drv.iter)
              old == replaced(archive, drv.archive_folder, scf_name(it))
          IN  /\ nruns' = nruns + 1
              /\ drivers' = [drivers EXCEPT ![d] = [drv EXCEPT !.iter = it,
                                                              !.scf_xml = nruns']]
              /\ archive' = (archive \ old)
                               \cup {[folder |-> drv.archive_folder, name |-> scf_name(it),
                                      by |-> d, run |-> nruns']}
              /\ lost' = lost \cup Lost("transcript", old, d, "overwrite")
              /\ lastop' = <<[op |-> "run_scf", d |-> d, before |-> drv]>>
    /\ UNCHANGED <<solverVars, adVars, ctorVars, parseVars, methodVars,
                   nsolver, solvers, outdirs>>

\* run_opt, lines 118-124
run_opt ==
    /\ nruns < MaxRuns
    /\ \E d \in Owned :
          LET drv == drivers[d]
              old == replaced(archive, drv.archive_folder, opt_name(drv.iter))
          IN  /\ nruns' = nruns + 1
              /\ drivers' = [drivers EXCEPT ![d] = [drv EXCEPT !.opt_xml = nruns']]
              /\ archive' = (archive \ old)
                               \cup {[folder |-> drv.archive_folder,
                                      name |-> opt_name(drv.iter),
                                      by |-> d, run |-> nruns']}
              /\ lost' = lost \cup Lost("transcript", old, d, "overwrite")
              /\ lastop' = <<[op |-> "run_opt", d |-> d, before |-> drv]>>
    /\ UNCHANGED <<solverVars, adVars, ctorVars, parseVars, methodVars,
                   nsolver, solvers, outdirs>>

\* an operation that only sends commands
other_op ==
    /\ nruns < MaxRuns
    /\ \E d \in Owned : \E op \in OtherOps :
          /\ nruns' = nruns + 1
          /\ lastop' = <<[op |-> op, d |-> d, before |-> drivers[d]]>>
    /\ UNCHANGED <<solverVars, adVars, ctorVars, parseVars, methodVars,
                   nsolver, solvers, drivers, outdirs, archive, lost>>

ProcNext ==
    \/ new_QboxDriver
    \/ new_CDFTSolver
    \/ run_scf
    \/ run_opt
    \/ other_op

ProcSpec == ProcInit /\ [][ProcNext]_vars


(***************************************************************************)
(* Properties.                                                             *)
(***************************************************************************)
Last(s) == s[Len(s)]

\* every tolerance a constraint is configured with holds for its N and V
tolerances_met(c) ==
    /\ c.Ntol # None => Abs(c.N - c.N0) < c.Ntol
    /\ c.Vtol # None => Abs(c.V - c.V_old) < c.Vtol
    /\ c.dVtol # None => Abs(c.N - c.N0) < c.dVtol

\* a residual evaluation has recomputed N and is over: it is at its last lines,
\* or one of its check_convergence calls raised
EvaluationOver == pc = "ev_finish" \/ (pc = "done" /\ chkRaised # 0)

\* C1: an evaluation that ends with every constraint inside all its configured
\* tolerances raises the converged signal; solve_scf then reports convergence
\* and issues no further set_Vc or run_scf in that call.
C1_ConvergedSignal ==
    /\ (EvaluationOver /\ \A k \in 1..Len(cons) : tolerances_met(with_N(cons[k], rho_r)))
          => (pc = "ev_finish" /\ all_converged(cons))
    /\ sigRaised => (scfStatus = "converged" /\ lateOps = 0)

\* C2: check_convergence returns true exactly when every configured tolerance is
\* met; an unconfigured tolerance raises nothing and a configured one is not
\* skipped.
C2_CheckConvergence ==
    EvaluationOver =>
        \A k \in 1..nchecked :
            /\ ~check_convergence(cons[k]).raises
            /\ check_convergence(cons[k]).value = tolerances_met(cons[k])

\* the order of a command round-trip
RoundTrip == <<"open", "write", "log", "remove", "wait", "return">>

\* C3: _run_cmd writes the command, then removes the lock file, then polls, and
\* returns only when the lock file is there again; an operation returns only
\* after the engine has run every command sent so far.
C3_RoundTrip ==
    /\ \A i \in 1..Len(cmdlog) : i <= Len(RoundTrip) /\ cmdlog[i] = RoundTrip[i]
    /\ (apc \in {"poll", "sleep"} /\ ncmd > 0) => input_file = ncmd
    /\ (cmdlog # << >> /\ Last(cmdlog) = "return") => lock
    /\ \A i \in 1..acked : i <= Len(execd) /\ execd[i] = i
    /\ apc = "idle" => (lock /\ acked = ncmd /\ Len(execd) = ncmd)

\* an operation of several commands has returned after waiting for the engine
C3_Witness == apc = "idle" /\ aop = "set_force" /\ acked = ncmd /\ nsec > 0

\* C4: without a lock file the wait raises after exactly
\* max_sleep_seconds / sleep_seconds polls, and a poll that finds the lock file
\* ends the wait without error.
C4_TimeoutPolls ==
    /\ npolls <= max_sleep_seconds \div sleep_seconds
    /\ apc = "QboxLockfileError" => npolls = max_sleep_seconds \div sleep_seconds

\* C5: a configuration error (unknown job tag, wrong number of constraints for a
\* scalar strategy) is raised before solve() has issued any adapter operation.
C5_FailFast ==
    (pc = "done" /\ result \in {"ValueError", "AssertionError"}
        /\ (job \notin {"scf", "opt"} \/ ~(optimizer \in ScalarOptimizers => Len(cons) = 1)))
    => ops = {}

\* C6: "scf" runs the SCF procedure and no geometry step, "opt" runs its SCF
\* solves inside geometry steps, any other tag ends in an error with no
\* minimization round and no geometry step.
C6_Dispatch ==
    /\ job = "scf" =>
          /\ istep = 0 /\ steplog = << >>
          /\ ops \subseteq {"get_rho_r", "set_Vc", "run_scf", "get_wfc"}
          /\ pc \notin {"solve", "dispatch"} => (pc = "solve_scf" \/ wgeom # << >>)
    /\ job = "opt" =>
          /\ pc \notin {"solve", "dispatch"} => (pc = "solve_opt" \/ istep >= 1)
          /\ (pc = "solve_scf" \/ wgeom # << >>) => istep >= 1
    /\ job \notin {"scf", "opt"} =>
          /\ pc \in {"solve", "dispatch", "done"}
          /\ pc = "done" => result = "ValueError"
          /\ ops \subseteq {"get_rho_r"}
          /\ itscf = None /\ istep = 0

C6_Witness == job \notin {"scf", "opt"} /\ pc = "done" /\ result = "ValueError"

\* the root-finder's budget of evaluations is spent
BudgetSpent == itscf # None /\ itscf >= MaxCscf + (IF optimizer = "BFGS" THEN 1 ELSE 2)

\* C7: when the budget is spent and no evaluation raised the converged signal,
\* solve_scf returns normally and reports non-convergence.
C7_BudgetSpent ==
    (job = "scf" /\ pc \in {"get_wfc", "done"} /\ BudgetSpent /\ ~sigRaised)
    => (result \in {"running", "ok"} /\ scfStatus = "not_converged")

\* a configuration solve_opt can run with
ValidSetup == optimizer \in ScalarOptimizers \cup {"BFGS"} /\ Len(cons) >= 1
              /\ (optimizer \in ScalarOptimizers => Len(cons) = 1)

\* C8: solve_opt takes at most maxstep steps, stops at the first step whose
\* largest total force is below F_tol with no set_Fc, run_opt or get_structure in
\* that step or later, and otherwise returns after exactly maxstep steps
\* reporting non-convergence, without raising.
C8_GeometryLoop ==
    /\ istep <= MaxStep
    /\ lateGeomOps = 0
    /\ forceConv => (pc \in {"get_wfc", "done"} /\ optStatus = "converged"
                     /\ maxforce_below(total_force(Fd, Fc), F_tol))
    /\ (job = "opt" /\ ValidSetup /\ pc = "done" /\ ~forceConv)
          => (result = "ok" /\ optStatus = "not_converged" /\ istep = MaxStep)

\* C9: after an evaluation W = Ed + Ec - sum V_k N_k for the multipliers it was
\* given and the N it recomputed, and an evaluation that does not converge returns
\* (-W, [-(N_k - N0_k)]).
C9_FreeEnergy ==
    /\ pc = "ev_finish" =>
          /\ \A k \in 1..Len(cons) : cons[k].V = Vs[k] /\ cons[k].N = compute_N(cons[k], rho_r)
          /\ W = Ed + Ec - SumSeq([k \in 1..Len(cons) |-> Vs[k] * compute_N(cons[k], rho_r)])
    /\ (pc = "root_finder" /\ itscf >= 1) =>
          /\ W = Ed + Ec - SumSeq([k \in 1..Len(cons) |-> cons[k].V * cons[k].N])
          /\ ret.negW = 0 - W
          /\ ret.jac = [k \in 1..Len(cons) |-> 0 - (cons[k].N - cons[k].N0)]

\* an evaluation with two constraints, a non-zero sum V N and a non-zero
\* constraint energy has returned to the root-finder
C9_Witness ==
    /\ pc = "root_finder" /\ itscf >= 1 /\ Len(cons) = 2 /\ Ec # 0
    /\ \E k \in 1..Len(cons) : cons[k].V * cons[k].N # 0

\* C10: a scalar strategy with a number of constraints other than one fails
\* before any evaluation and with one constraint it goes on to evaluate; BFGS
\* goes on with any number; an unknown strategy fails with an error.
C10_Strategy ==
    job \in {"scf", "opt"} =>
        /\ (optimizer \in ScalarOptimizers /\ Len(cons) # 1) =>
              /\ itscf = None /\ evlog = << >>
              /\ pc \in {"solve", "dispatch", "solve_opt", "solve_scf", "done"}
              /\ pc = "done" => result = "AssertionError"
        /\ ((optimizer \in ScalarOptimizers /\ Len(cons) = 1) \/ optimizer = "BFGS") =>
              /\ pc = "done" => itscf >= 1
              /\ pc \notin {"solve", "dispatch", "solve_opt", "solve_scf"} => itscf # None
        /\ optimizer \notin ScalarOptimizers \cup {"BFGS"} =>
              /\ evlog = << >>
              /\ pc = "done" => (result = "ValueError" /\ itscf = 0)

C10_Witness ==
    /\ job \in {"scf", "opt"} /\ optimizer \in ScalarOptimizers /\ Len(cons) = 2
    /\ pc = "done" /\ result = "AssertionError"


\* every atom of the Sample belongs to exactly one of the two fragments
ExactPartition(donor, acceptor) ==
    /\ \A a \in Atoms : (a \in ToSet(donor)) # (a \in ToSet(acceptor))
    /\ ToSet(donor) \cup ToSet(acceptor) \subseteq Atoms

\* C11: constructing a charge-transfer constraint fails with a configuration
\* error when some atom is in neither fragment or in both, and succeeds when
\* every atom is in exactly one of them.
C11_Partition ==
    (kpc = "done" /\ kclass = "ChargeTransferConstraint") =>
        IF ExactPartition(kargs.donor, kargs.acceptor)
        THEN kres = "ok" /\ Len(kobj) = 1
        ELSE kres \in {"AssertionError", "ValueError"} /\ kobj = << >>

\* C12: constructing a constraint with no tolerance configured fails and leaves no
\* constraint; with at least one configured it succeeds with V = V_old = V_init
\* and the converged flag false.
C12_Construction ==
    (kpc = "done" /\ kclass \in {"Constraint", "ChargeConstraint"}) =>
        IF \A i \in 1..3 : kargs.tol[i] = None
        THEN kres # "ok" /\ kobj = << >>
        ELSE /\ kres = "ok" /\ Len(kobj) = 1
             /\ kobj[1].V = kobj[1].V_init /\ kobj[1].V_old = kobj[1].V_init
             /\ ~kobj[1].is_converged


\* the entry of xdoc that names the Sample's atom a last, or 0
LastEntryFor(a) ==
    LET js == {j \in 1..Len(xdoc) : xdoc[j].index = a}
    IN  IF js = {} THEN 0 ELSE CHOOSE j \in js : \A i \in js : i <= j

\* an entry whose symbol is not the symbol of the Sample's atom at its index
Mismatch(e) == e.index \notin 1..natoms \/ symbols[e.index] # e.symbol

\* C13: a parse of forces or geometry aborts with an error when some atom entry's
\* symbol differs from the symbol of the Sample's atom at the entry's index; when
\* all entries match, the value of the entry with index i is what atom i - 1 (the
\* i-th atom) gets.
C13_ParseAtoms ==
    xpc = "done" =>
        IF \E j \in 1..Len(xdoc) : Mismatch(xdoc[j])
        THEN xres \notin {"ok", "none"} /\ xF = << >>
        ELSE /\ xres = "ok"
             /\ \A a \in 1..natoms :
                   LET j == LastEntryFor(a)
                       got == IF xop = "fetch_force" THEN xF[a] ELSE xcoord[a]
                   IN  got = IF j = 0 THEN 0 ELSE xdoc[j].value

\* a document whose two entries match the Sample's two atoms has been parsed
C13_Witness ==
    /\ xpc = "done" /\ xres = "ok" /\ Len(xdoc) = 2
    /\ xdoc[1].index # xdoc[2].index /\ xdoc[1].value # xdoc[2].value


\* C14: for a recognized job the first adapter operation solve() issues is the
\* density fetch: no set_Vc, run_scf, get_force or geometry step comes before it.
C14_FirstFetch ==
    job \in {"scf", "opt"} =>
        /\ firstOp \in {"none", "get_rho_r"}
        /\ ops # {} => firstOp = "get_rho_r"
        /\ pc # "solve" => "get_rho_r" \in ops
        /\ (Len(evlog) > 0 \/ Len(steplog) > 0 \/ istep > 0) => firstOp = "get_rho_r"

\* a geometry optimization has injected a potential and fetched forces
C14_Witness ==
    job = "opt" /\ firstOp = "get_rho_r" /\ {"set_Vc", "run_scf", "get_force"} \subseteq ops


\* a residual evaluation is in progress or has just handed its value back
Evaluating == pc \in {"ev_update", "ev_set_Vc", "ev_run_scf", "ev_get_rho_r",
                      "ev_update_N", "ev_finish"}

\* the weight of the fragment holding atom f alone, for the positions p
WeightFor(f, p) ==
    [g \in Grid |-> LET tot == Cardinality({a \in Atoms : p[a] = g})
                    IN  IF tot < eps THEN 0 ELSE (IF p[f] = g THEN 1 ELSE 0) \div tot]

C16_ChargeWeight ==
    (wpc = "done" /\ wop \in {"charge.update_w", "charge_transfer.update_w"}) =>
        \A s \in 1..Len(wout) : \A g \in Grid :
            LET numer == IF wop = "charge.update_w" THEN win.donor[g]
                         ELSE win.donor[g] - win.acceptor[g]
            IN  /\ wout[s][g].kind = "num"
                /\ IF win.tot[g] < eps THEN wout[s][g].v = 0
                   ELSE wout[s][g].v * win.tot[g] = numer

\* a charge weight computed where one grid point has no reference density and
\* another has the fragment's atom
C16_Witness ==
    /\ wpc = "done" /\ wop = "charge.update_w"
    /\ \E g \in Grid : win.tot[g] = 0
    /\ \E g \in Grid : win.tot[g] >= eps /\ wout[1][g].v = 1

\* C17: the potential field Vc has as many spin channels as the Sample declares
\* for constraint potentials (vspin), and every channel is V times the weight at
\* every grid point; with one declared channel there is one channel.
C17_VcChannels ==
    (wpc = "done" /\ wop = "compute_Vc") =>
        /\ wout[1].err = "none"
        /\ Len(wout[1].Vc) = win.vspin
        /\ \A s \in 1..Len(wout[1].Vc) : \A g \in Grid :
              wout[1].Vc[s][g] = win.V * win.weight[g]

C19_Isolation ==
    /\ \A i, j \in 1..Len(solvers) :
          i < j => /\ solvers[i].isolver < solvers[j].isolver
                   /\ solvers[i].output_path # solvers[j].output_path
    /\ \A i \in 1..Len(solvers) :
          [folder |-> "pycdft_outputs", name |-> solvers[i].output_path,
           by |-> solvers[i].isolver] \in outdirs
    /\ \A l \in lost : l.victim # 0 => l.victim = l.actor

\* C20: the iteration counter of an adapter is 0 after construction, one more
\* after each run_scf and what it was after every other operation; run_scf leaves
\* its transcript in the archive under the counter's new value and replaces the
\* SCF result document only, run_opt replaces the geometry result document only,
\* the other operations replace neither; no adapter has overwritten an SCF
\* transcript it archived before.
C20_IterCounter ==
    /\ lastop # << >> =>
          LET l == lastop[1]
              drv == drivers[l.d]
          IN  /\ l.op = "__init__" => drv.iter = 0
              /\ l.op = "run_scf" =>
                    /\ drv.iter = l.before.iter + 1
                    /\ [folder |-> drv.archive_folder, name |-> scf_name(drv.iter),
                        by |-> l.d, run |-> nruns] \in archive
                    /\ drv.scf_xml = nruns
                    /\ drv.opt_xml = l.before.opt_xml
              /\ l.op = "run_opt" =>
                    /\ drv.iter = l.before.iter
                    /\ drv.opt_xml = nruns
                    /\ drv.scf_xml = l.before.scf_xml
              /\ l.op \notin {"__init__", "run_scf", "run_opt"} =>
                    /\ drv.iter = l.before.iter
                    /\ drv.scf_xml = l.before.scf_xml
                    /\ drv.opt_xml = l.before.opt_xml
    /\ \A l \in lost :
          ~(l.kind = "overwrite" /\ l.name[1] = "iter" /\ l.victim = l.actor)

\* an adapter has run two minimizations and a geometry step between them: its
\* counter is 2 and both SCF transcripts are in the archive
C20_Witness ==
    \E d \in 1..Len(drivers) :
       /\ drivers[d].iter = 2
       /\ drivers[d].opt_xml # None
       /\ \A k \in 1..2 : \E f \in archive : f.name = scf_name(k) /\ f.by = d
       /\ lastop[1].op = "run_scf"

\* C21: the density fetch stores, for every spin channel, the field of the grid
\* file shifted cyclically by half the extent along each axis: the value stored
\* at <<i, j, k>> is the raw value at <<(i - n1 \div 2) mod n1, (j - n2 \div 2)
\* mod n2, (k - n3 \div 2) mod n3>>, and every value is stored as many times as
\* the file holds it.
C21_HalfShift ==
    (wop = "fetch_rhor" /\ wpc = "done") =>
       LET n == win.shape
           src(idx) == <<(idx[1] - (n[1] \div 2) + n[1]) % n[1],
                         (idx[2] - (n[2] \div 2) + n[2]) % n[2],
                         (idx[3] - (n[3] \div 2) + n[3]) % n[3]>>
       IN  /\ DOMAIN wout.rhor = 1..win.nspin
           /\ \A s \in 1..win.nspin :
                 /\ DOMAIN wout.rhor[s] = Indices(n)
                 /\ \A idx \in Indices(n) : wout.rhor[s][idx] = win.raw[s][src(idx)]
                 /\ \A idx \in Indices(n) :
                       Cardinality({x \in Indices(n) : wout.rhor[s][x] = win.raw[s][idx]})
                          = Cardinality({x \in Indices(n) : win.raw[s][x] = win.raw[s][idx]})

\* two spin channels were fetched on a grid with an odd extent along the first
\* axis, where a shift the other way gives another field
C21_Witness ==
    /\ wop = "fetch_rhor" /\ wpc = "done"
    /\ win.shape = <<3, 2, 3>> /\ win.nspin = 2
    /\ win.raw[1] # win.raw[2]
    /\ wout.rhor[1] # win.raw[1]
    /\ wout.rhor[1][<<1, 1, 1>>] = win.raw[1][<<0, 0, 0>>]

\* the scenario of one constraint with target 1 and initial multiplier 0 under
\* the secant strategy, in single-point mode
LinearScenario ==
    /\ job = "scf" /\ optimizer = "secant" /\ Len(cons) = 1
    /\ cons[1].N0 = 1 /\ cons[1].V_init = 0

\* the first evaluation was made at V = 0 and the engine answered with the
\* density of N = 1 + V / 2 = 1; its update of N has run
FirstAnswerLinear ==
    /\ itscf = 1 /\ Vs = <<0>> /\ chkRaised \in {0, 1}
    /\ pc \in {"ev_finish", "get_wfc", "done"}
    /\ compute_N(cons[1], rho_r) = 1

\* C22: in that scenario the first evaluation, at V = 0, is the only one:
\* it raises no error, solve_scf reports convergence after it and the multiplier
\* of the constraint is left at 0.
C22_LinearResponse ==
    (LinearScenario /\ FirstAnswerLinear) =>
       /\ result \in {"running", "ok"}
       /\ cons[1].V = 0
       /\ pc # "ev_finish" => (sigRaised /\ scfStatus = "converged")
       /\ pc = "ev_finish" => all_converged(cons)

\* the steps of one residual evaluation
EvalSteps == <<"update_Vc", "sum_Vc", "set_Vc", "run_scf", "get_rho_r", "update_N">>

\* the steps taken when the evaluation is at pc
StepsAt ==
    [ev_set_Vc |-> 2, ev_run_scf |-> 3, ev_get_rho_r |-> 4, ev_update_N |-> 5, ev_finish |-> 6]

\* the total potential of the multipliers v on the constraints' weights
PotentialOf(v) ==
    [s \in 1..vspin |-> [g \in Grid |-> SumSeq([k \in 1..Len(cons) |-> v[k] * cons[k].weight[g]])]]

\* the steps of the evaluation in progress are the first steps of EvalSteps, each
\* once; from the injection on the engine holds the potential of this evaluation's
\* multipliers; at the end every constraint's N is the one of the fetched density
EvaluationInOrder ==
    pc \in DOMAIN StepsAt =>
       /\ evlog = SubSeq(EvalSteps, 1, StepsAt[pc])
       /\ Len(Vs) = Len(cons)
       /\ \A k \in 1..Len(cons) :
             /\ cons[k].V = Vs[k]
             /\ cons[k].Vc = [s \in 1..vspin |-> [g \in Grid |-> Vs[k] * cons[k].weight[g]]]
       /\ Len(cons) > 0 => Vc_tot = PotentialOf(Vs)
       /\ StepsAt[pc] >= 3 => engVc = PotentialOf(Vs)
       /\ StepsAt[pc] = 6 => \A k \in 1..Len(cons) : cons[k].N = compute_N(cons[k], rho_r)

\* the counter is 0 when solve_scf hands over to the root-finder, one more when
\* an evaluation starts, and changed by no other step
CounterStep ==
    /\ (pc = "solve_scf" /\ pc' = "root_finder") => itscf' = 0
    /\ pc = "ev_update" => itscf' = itscf + 1
    /\ pc \notin {"solve_scf", "ev_update"} => itscf' = itscf

\* C23: each residual evaluation assigns the multipliers and derives the
\* potentials, sums them, injects the sum, runs one minimization, fetches the
\* density and recomputes every N, in this order and each once; the potential
\* injected is the one of the same evaluation's multipliers; the SCF iteration
\* counter is reset to 0 at the start of solve_scf and grows by one per evaluation.
C23_Evaluation == []EvaluationInOrder /\ [][CounterStep]_vars

\* a second evaluation with two constraints has come to its end with a potential
\* in the engine that is not zero and to which both constraints contribute
C23_Witness ==
    /\ pc = "ev_finish" /\ itscf = 2 /\ Len(cons) = 2
    /\ evlog = EvalSteps
    /\ Vs[1] # 0 /\ Vs[2] # 0
    /\ cons[1].Vc # <<ZeroField>> /\ cons[2].Vc # <<ZeroField>>
    /\ engVc # cons[1].Vc /\ engVc # cons[2].Vc

\* the steps of one geometry step that does not meet the force tolerance
GeomSteps == <<"solve_scf", "get_force", "update_Fc", "set_Fc", "run_opt", "get_structure",
               "update_structure">>

\* the steps taken when solve_opt is at pc
GeomStepsAt ==
    [get_force |-> 1, update_Fc |-> 2, set_Fc |-> 3, run_opt |-> 4, get_structure |-> 5,
     update_structure |-> 6]

\* C24: a geometry step issues, in this order, one full SCF solve, the force
\* fetch, the force update of every constraint with their sum, and, when the
\* force tolerance is not met, the injection of the summed force, one geometry
\* step, the geometry fetch and update_structure on every constraint; the next
\* step starts only after all of these; the SCF solve has ended before the force
\* fetch, whatever it reported.
C24_GeometryStep ==
    job = "opt" =>
       /\ pc \in DOMAIN GeomStepsAt =>
             /\ steplog = SubSeq(GeomSteps, 1, GeomStepsAt[pc])
             /\ scfStatus \in {"converged", "not_converged"}
       /\ pc \in {"solve_scf", "root_finder", "ev_update", "ev_set_Vc", "ev_run_scf",
                  "ev_get_rho_r", "ev_update_N", "ev_finish"} => steplog = <<"solve_scf">>
       /\ (pc = "solve_opt" /\ istep >= 1) => steplog = GeomSteps
       /\ pc \in {"set_Fc", "run_opt", "get_structure", "update_structure"} =>
             /\ ~maxforce_below(Fw, F_tol)
             /\ Fc = sum_Fc(cons) /\ Fw = total_force(Fd, Fc)
       /\ pc \in {"run_opt", "get_structure", "update_structure"} => engFc = Fc
       /\ (pc = "get_wfc" /\ ~forceConv) => (istep = MaxStep /\ steplog = GeomSteps)
       /\ (pc = "get_wfc" /\ forceConv) => steplog = SubSeq(GeomSteps, 1, 3)

\* a second geometry step has gone through all its steps after an SCF solve that
\* reported non-convergence, with a constraint force in the engine
C24_Witness ==
    /\ job = "opt" /\ pc = "solve_opt" /\ istep = 2
    /\ steplog = GeomSteps
    /\ scfStatus = "not_converged"
    /\ engFc # ZeroForce

\* the adapter is inside _run_cmd before the wait: the input file is being, or
\* has just been, written and the lock file is not yet removed
Writing == apc = "run_cmd" /\ run_cmd_steps[astep] \in {"open", "write", "log", "remove"}

\* C25: in every interleaving of the adapter's and the engine's steps the adapter
\* writes the input file only while the lock file is there, from the first
\* command on; the engine is never reading or running while the adapter writes,
\* what it reads is the whole command written last, and the commands it has run
\* are the commands written, in order, each once.
C25_MarkerProtocol ==
    /\ Writing => (lock /\ epc = "ready")
    /\ epc \in {"starting", "off"} => (ncmd = 0 /\ input_file = 0)
    /\ epc = "running" => (~Writing /\ ecmd = ncmd /\ ecmd = input_file /\ ecmd # 0)
    /\ \A i \in 1..Len(execd) : execd[i] = i
    /\ Len(execd) \in {ncmd - 1, ncmd} \cap Nat
    /\ (epc = "running" \/ Writing \/ ~lock) => Len(execd) = ncmd - 1 \/ ncmd = 0
    /\ acked <= Len(execd)

\* the engine runs the second command while the adapter sleeps in its wait, the
\* first command run once
C25_Witness ==
    /\ epc = "running" /\ ecmd = 2 /\ apc = "sleep" /\ execd = <<1>> /\ ~lock

\* after the converged signal every constraint's V is the multiplier of the
\* evaluation that raised it; the first evaluation of a solve_scf under the secant
\* strategy or BFGS is made at the constraints' V_init
VAfterSignal ==
    /\ sigRaised => \A k \in 1..Len(cons) : cons[k].V = Vs[k]
    /\ (itscf = 1 /\ pc \in DOMAIN StepsAt /\ optimizer \in {"secant", "BFGS"}) =>
          \A k \in 1..Len(cons) : Vs[k] = cons[k].V_init

\* a step that raises the converged signal changes no V_init; a step that changes
\* a V_init is the normal return of the root-finder
VInitStep ==
    /\ (~sigRaised /\ sigRaised') =>
          \A k \in 1..Len(cons) : cons'[k].V_init = cons[k].V_init
    /\ (\E k \in 1..Len(cons) : cons'[k].V_init # cons[k].V_init) =>
          (pc = "root_finder" /\ pc' = AfterScf /\ scfStatus' = "not_converged" /\ ~sigRaised')

\* C26: a solve_scf that ends through the converged signal modifies no V_init
\* and leaves every V at the multiplier of the last evaluation; V_init is
\* overwritten only when the root-finder returns normally, so the SCF solve of the
\* next geometry step starts from the V_init the converged one started from.
C26_VInitFrame == []VAfterSignal /\ [][VInitStep]_vars

\* in geometry-optimization mode an SCF solve has ended through the signal at a
\* multiplier other than V_init and the second step is about to solve again
C26_Witness ==
    /\ job = "opt" /\ pc = "solve_scf" /\ istep = 2 /\ sigRaised
    /\ Len(cons) = 1 /\ cons[1].V # cons[1].V_init

\* the dense index of an existing orbital: the bands of the spins before it,
\* then its band
DenseIndex(w, key) == SumSeq([s \in 1..key.s |-> w.nbnd[s - 1]]) + key.b

\* C27: a write or a read with a (spin, kpoint, band) tuple that denotes no
\* existing orbital (spin >= nspin, kpoint >= nkpt, band >= nbnd[spin, kpoint] or
\* a negative component) raises an index-out-of-range error and stores nothing;
\* a write with a valid tuple stores the value under the dense index of the
\* tuple, and the value is read back with the tuple and with the dense index.
C27_OrbitalIndex ==
    (wop = "collection" /\ wpc \in {"again", "done"}) =>
       IF in_range_strict(win.wfc, win.key)
       THEN /\ wout.set = "none"
            /\ DOMAIN wout.qty = {DenseIndex(win.wfc, win.key)}
            /\ wout.qty[DenseIndex(win.wfc, win.key)] = win.value
            /\ wpc = "done" => /\ wout.get = [err |-> "none", val |-> win.value]
                               /\ wout.get_int = [err |-> "none", val |-> win.value]
       ELSE /\ wout.set = "IndexError"
            /\ DOMAIN wout.qty = {}
            /\ wpc = "done" => wout.get.err = "IndexError"

====
